---- MODULE Spec2Model ----
(***************************************************************************)
(* A model of mycon, a Befunge-98 interpreter: the Funge-Space (a sparse   *)
(* tree of 16x16 nodes with a bounding box kept from per-row and           *)
(* per-column counters) and the execution engine (a list of instruction    *)
(* pointers stepped round-robin, whose ticks queue control results that    *)
(* the engine commits).                                                    *)
(***************************************************************************)
EXTENDS Integers, Sequences, FiniteSets, TLC

(***************************************************************************)
(* i32 arithmetic.  Values are kept in MinI32..MaxI32; every operator      *)
(* computes the two's-complement result without leaving that range on the  *)
(* way, and the ...Ovf predicates say where the exact result would not fit *)
(* (a panic when the build checks overflow, a wrap otherwise).             *)
(***************************************************************************)
MaxI32 == 2147483647
MinI32 == -MaxI32 - 1

AddOvf(a, b) == (b >= 0 /\ a > MaxI32 - b) \/ (b < 0 /\ a < MinI32 - b)

WAdd(a, b) ==
    IF b >= 0 /\ a > MaxI32 - b THEN (a + MinI32) + (b + MinI32)
    ELSE IF b < 0 /\ a < MinI32 - b THEN (a - MinI32) + (b - MinI32)
    ELSE a + b

SubOvf(a, b) == (b > 0 /\ a < MinI32 + b) \/ (b < 0 /\ a > MaxI32 + b)

WSub(a, b) ==
    IF b > 0 /\ a < MinI32 + b THEN (a - MinI32) + ((MaxI32 - b) + 1)
    ELSE IF b < 0 /\ a > MaxI32 + b THEN (a + MinI32) + (MinI32 - b)
    ELSE a - b

WNeg(a) == WSub(0, a)

\* the low 16 bits of the product of two 16-bit numbers
MulLow16(a, b) ==
    ((a % 256) * b + (((a \div 256) * b) % 256) * 256) % 65536

\* the bits 16..31 of the product of two 16-bit numbers
MulHigh16(a, b) ==
    LET u == (a \div 256) * b
        v == (a % 256) * b
    IN  ((u \div 256) + (((u % 256) * 256 + v) \div 65536)) % 65536

\* a * b modulo 2^32, from the 16-bit halves of the two bit patterns
WMul(a, b) ==
    LET al == a % 65536
        ah == (a \div 65536) % 65536
        bl == b % 65536
        bh == (b \div 65536) % 65536
        lo == MulLow16(al, bl)
        hi == (MulHigh16(al, bl) + MulLow16(ah, bl) + MulLow16(al, bh)) % 65536
    IN  IF hi >= 32768 THEN (hi - 65536) * 65536 + lo ELSE hi * 65536 + lo

Abs(a) == IF a < 0 THEN -a ELSE a

\* the exact product of a and b does not fit in an i32
MulOvf(a, b) ==
    IF a = 0 \/ b = 0 THEN FALSE
    ELSE IF a = MinI32 THEN b # 1
    ELSE IF b = MinI32 THEN a # 1
    ELSE LET m == Abs(b)
             q == MaxI32 \div m
         IN  IF m = 1 THEN FALSE
             ELSE IF (a > 0) = (b > 0) THEN Abs(a) > q
             \* a negative product may reach 2^31 in magnitude
             ELSE Abs(a) > (IF MaxI32 % m = m - 1 THEN q + 1 ELSE q)

\* i32 division truncates toward zero; MinI32 / -1 panics in every build
DivOvf(a, b) == a = MinI32 /\ b = -1

TDiv(a, b) ==
    IF a = MinI32 /\ b = MinI32 THEN 1
    ELSE IF b = MinI32 THEN 0
    ELSE IF a = MinI32 THEN
         \* |a| = 2^31 does not fit: 2^31 \div m from MaxI32 \div m
         LET m == Abs(b)
             q == (MaxI32 \div m) + (IF MaxI32 % m = m - 1 THEN 1 ELSE 0)
         IN  IF b = 1 THEN MinI32 ELSE IF b > 0 THEN -q ELSE q
    ELSE IF (a >= 0) = (b > 0) THEN Abs(a) \div Abs(b)
    ELSE -(Abs(a) \div Abs(b))

\* x << s and x >> s on an i32, s in 0..28
Shl(x, s) ==
    IF s = 0 THEN x
    ELSE LET low == x % (2 ^ (32 - s))
         IN  IF low >= 2 ^ (31 - s) THEN (low - 2 ^ (32 - s)) * (2 ^ s)
             ELSE low * (2 ^ s)

Shr(x, s) == x \div (2 ^ s)

Min2(a, b) == IF a <= b THEN a ELSE b

(***************************************************************************)
(* data/mod.rs: Value, Point, Delta                                        *)
(***************************************************************************)
SPACE == 32

Point(x, y) == [x |-> x, y |-> y]
Delta(dx, dy) == [dx |-> dx, dy |-> dy]

\* Option<T>: None is the empty tuple, Some(v) the tuple of v
None == << >>
Some(v) == << v >>

(***************************************************************************)
(* data/space/tree.rs                                                      *)
(***************************************************************************)
CHUNK_SHIFT == 4
CHUNK_SHIFT_BACK == 32 - CHUNK_SHIFT
CHUNK_SIZE == 2 ^ CHUNK_SHIFT
OFFSET_SHIFT == 2
OFFSET == 8 * 2 ^ (CHUNK_SHIFT * OFFSET_SHIFT)

Idx == 0 .. CHUNK_SIZE - 1

\* Chunk::default and Node::default
ChunkDefault == [i \in Idx |-> [j \in Idx |-> SPACE]]
NodeDefault == [i \in Idx |-> [j \in Idx |-> None]]

\* FungeTree::default
FungeTreeDefault == [depth |-> 0, t |-> ChunkDefault]

\* (x as usize & CHUNK_MASK) >> CHUNK_SHIFT_BACK: the top four bits of x
get_index(x) == Shr(x, CHUNK_SHIFT_BACK) % CHUNK_SIZE

shift(x) == Shl(x, CHUNK_SHIFT)

offset(x) == WAdd(x, OFFSET)

\* Tree::get for a Chunk (lvl = 0) and for a Node<T> (lvl > 0)
RECURSIVE TreeGet(_, _, _, _)
TreeGet(t, lvl, x, y) ==
    LET i == get_index(x)
        j == get_index(y)
    IN  IF lvl = 0 THEN t[i][j]
        ELSE IF t[i][j] = None THEN SPACE
        ELSE TreeGet(t[i][j][1], lvl - 1, shift(x), shift(y))

\* Tree::set for a Chunk and for a Node<T>: the tree after the call and the
\* value the call returns
RECURSIVE TreeSet(_, _, _, _, _)
TreeSet(t, lvl, x, y, value) ==
    LET i == get_index(x)
        j == get_index(y)
    IN  IF lvl = 0
        THEN [t |-> [t EXCEPT ![i][j] = value], old |-> t[i][j]]
        ELSE IF t[i][j] = None /\ value = SPACE
        THEN [t |-> t, old |-> SPACE]
        ELSE LET sub == IF t[i][j] = None
                        THEN IF lvl = 1 THEN ChunkDefault ELSE NodeDefault
                        ELSE t[i][j][1]
                 r == TreeSet(sub, lvl - 1, shift(x), shift(y), value)
             IN  [t |-> [t EXCEPT ![i][j] = Some(r.t)], old |-> r.old]

\* get_case! and FungeTree::get
get_case(ft, x, y) ==
    LET s == (7 - ft.depth) * CHUNK_SHIFT
    IN  TreeGet(ft.t, ft.depth, Shl(x, s), Shl(y, s))

FungeTreeGet(ft, x, y) == get_case(ft, offset(x), offset(y))

\* set_rec without the early return of set_case! for a space written outside
\* the region the tree covers: the tree grows for it
RECURSIVE set_rec_grows_for_space(_, _, _, _)
set_rec_grows_for_space(ft, x, y, value) ==
    IF ft.depth = 7
    THEN LET r == TreeSet(ft.t, 7, x, y, value)
         IN  [ft |-> [depth |-> 7, t |-> r.t], old |-> r.old]
    ELSE LET d == ft.depth + 1
             s == d * CHUNK_SHIFT
             ix == Shr(OFFSET, s)
         IN  IF Shr(x, s) = ix /\ Shr(y, s) = ix
             THEN LET s2 == (8 - d) * CHUNK_SHIFT
                      r == TreeSet(ft.t, ft.depth, Shl(x, s2), Shl(y, s2), value)
                  IN  [ft |-> [depth |-> ft.depth, t |-> r.t], old |-> r.old]
             ELSE LET k == ix % CHUNK_SIZE
                      new == [NodeDefault EXCEPT ![k][k] = Some(ft.t)]
                  IN  set_rec_grows_for_space([depth |-> d, t |-> new], x, y, value)

\* set_case! and FungeTree::set_rec; d is the literal of the macro call,
\* one more than the depth of the tree in hand
RECURSIVE set_rec(_, _, _, _)
set_rec(ft, x, y, value) ==
    IF ft.depth = 7
    THEN LET r == TreeSet(ft.t, 7, x, y, value)
         IN  [ft |-> [depth |-> 7, t |-> r.t], old |-> r.old]
    ELSE LET d == ft.depth + 1
             s == d * CHUNK_SHIFT
             tx == Shr(x, s)
             ty == Shr(y, s)
             ix == Shr(OFFSET, s)
         IN  IF tx = ix /\ ty = ix
             THEN LET s2 == (8 - d) * CHUNK_SHIFT
                      r == TreeSet(ft.t, ft.depth, Shl(x, s2), Shl(y, s2), value)
                  IN  [ft |-> [depth |-> ft.depth, t |-> r.t], old |-> r.old]
             ELSE IF value = SPACE
             THEN [ft |-> ft, old |-> SPACE]
             ELSE LET k == ix % CHUNK_SIZE
                      new == [NodeDefault EXCEPT ![k][k] = Some(ft.t)]
                  IN  set_rec([depth |-> d, t |-> new], x, y, value)

FungeTreeSet(ft, x, y, value) == set_rec(ft, offset(x), offset(y), value)

(***************************************************************************)
(* data/space.rs: Bounds                                                   *)
(***************************************************************************)
\* a BTreeMap<i32, u32> is a function on the finite set of its keys
EmptyMap == << >>

\* *map.entry(k).or_insert(0) += n
EntryAdd(map, k, n) ==
    IF k \in DOMAIN map THEN [map EXCEPT ![k] = @ + n]
    ELSE [i \in DOMAIN map \cup {k} |-> IF i = k THEN n ELSE map[i]]

\* map.entry(k).and_modify(|r| *r -= 1); a u32 at 0 wraps to 4294967295
\* when the build does not check overflow, kept here as -1 (the same bits)
EntrySubOne(map, k) ==
    IF k \in DOMAIN map THEN [map EXCEPT ![k] = @ - 1] ELSE map

\* the subtraction in and_modify is applied to a counter that is 0
EntrySubUnderflow(map, k) == k \in DOMAIN map /\ map[k] = 0

SetMin(S) == CHOOSE m \in S : \A k \in S : m <= k
SetMax(S) == CHOOSE m \in S : \A k \in S : m >= k

\* the keys that pass the filter_map of set_min_max
NonZeroKeys(map) == {k \in DOMAIN map : map[k] # 0}

BoundsNew ==
    [min_x |-> 0, min_y |-> 0, max_x |-> 0, max_y |-> 0,
     nonempty_x |-> EmptyMap, nonempty_y |-> EmptyMap]

set_x(b, x, n) == [b EXCEPT !.nonempty_x = EntryAdd(@, x, n)]

set_y(b, y, n) == [b EXCEPT !.nonempty_y = EntryAdd(@, y, n)]

set_min_max(b) ==
    LET kx == NonZeroKeys(b.nonempty_x)
        ky == NonZeroKeys(b.nonempty_y)
    IN  [b EXCEPT !.min_x = IF kx = {} THEN 0 ELSE SetMin(kx),
                  !.min_y = IF ky = {} THEN 0 ELSE SetMin(ky),
                  !.max_x = IF kx = {} THEN 0 ELSE SetMax(kx),
                  !.max_y = IF ky = {} THEN 0 ELSE SetMax(ky)]

BoundsUpdate(b, p, old, new) ==
    IF old = SPACE /\ new # SPACE
    THEN set_min_max([b EXCEPT !.nonempty_x = EntryAdd(@, p.x, 1),
                               !.nonempty_y = EntryAdd(@, p.y, 1)])
    ELSE IF old # SPACE /\ new = SPACE
    THEN set_min_max([b EXCEPT !.nonempty_x = EntrySubOne(@, p.x),
                               !.nonempty_y = EntrySubOne(@, p.y)])
    ELSE b

\* Bounds::update subtracts from a counter that is 0
BoundsUpdateUnderflow(b, p, old, new) ==
    /\ old # SPACE
    /\ new = SPACE
    /\ EntrySubUnderflow(b.nonempty_x, p.x) \/ EntrySubUnderflow(b.nonempty_y, p.y)

(***************************************************************************)
(* data/space.rs: Space                                                    *)
(***************************************************************************)
SpaceNew == [tree |-> FungeTreeDefault, bounds |-> BoundsNew]

SpaceGet(sp, p) == FungeTreeGet(sp.tree, p.x, p.y)

SpaceSet(sp, p, value) ==
    LET r == FungeTreeSet(sp.tree, p.x, p.y, value)
    IN  [tree |-> r.ft, bounds |-> BoundsUpdate(sp.bounds, p, r.old, value)]

SpaceSetUnderflow(sp, p, value) ==
    BoundsUpdateUnderflow(sp.bounds, p, FungeTreeSet(sp.tree, p.x, p.y, value).old, value)

SpaceMin(sp) == << sp.bounds.min_x, sp.bounds.min_y >>
SpaceMax(sp) == << sp.bounds.max_x, sp.bounds.max_y >>

\* one axis of new_position and is_last: whether the step leaves the box
\* (last), the distance s to the side the step comes from, and whether one
\* of the two subtractions overflows
Axis(x, dx, lo, hi) ==
    IF dx >= 0
    THEN [last |-> x > WSub(hi, dx), s |-> WSub(x, lo),
          ovf |-> SubOvf(hi, dx) \/ SubOvf(x, lo)]
    ELSE [last |-> x < WSub(lo, dx), s |-> WSub(x, hi),
          ovf |-> SubOvf(lo, dx) \/ SubOvf(x, hi)]

\* Space::is_last
is_last(sp, p, d) ==
    \/ Axis(p.x, d.dx, sp.bounds.min_x, sp.bounds.max_x).last
    \/ Axis(p.y, d.dy, sp.bounds.min_y, sp.bounds.max_y).last

is_last_ovf(sp, p, d) ==
    \/ IF d.dx >= 0 THEN SubOvf(sp.bounds.max_x, d.dx) ELSE SubOvf(sp.bounds.min_x, d.dx)
    \/ IF d.dy >= 0 THEN SubOvf(sp.bounds.max_y, d.dy) ELSE SubOvf(sp.bounds.min_y, d.dy)

\* Space::new_position: pos is the point returned when every operation
\* wraps, ovf says that an addition, subtraction or multiplication on the
\* way overflows, div that a division does (MinI32 / -1)
new_position(sp, p, d) ==
    LET ax == Axis(p.x, d.dx, sp.bounds.min_x, sp.bounds.max_x)
        ay == Axis(p.y, d.dy, sp.bounds.min_y, sp.bounds.max_y)
        divx == d.dx # 0 /\ DivOvf(ax.s, d.dx)
        divy == d.dy # 0 /\ DivOvf(ay.s, d.dy)
        nx == IF d.dx = 0 THEN MaxI32 ELSE IF divx THEN 0 ELSE TDiv(ax.s, d.dx)
        ny == IF d.dy = 0 THEN MaxI32 ELSE IF divy THEN 0 ELSE TDiv(ay.s, d.dy)
        n == Min2(nx, ny)
        mx == WMul(d.dx, n)
        my == WMul(d.dy, n)
    IN  IF ax.last \/ ay.last
        THEN [pos |-> Point(WSub(p.x, mx), WSub(p.y, my)),
              div |-> divx \/ divy,
              ovf |-> \/ ax.ovf \/ ay.ovf
                      \/ MulOvf(d.dx, n) \/ MulOvf(d.dy, n)
                      \/ SubOvf(p.x, mx) \/ SubOvf(p.y, my)]
        ELSE [pos |-> Point(WAdd(p.x, d.dx), WAdd(p.y, d.dy)),
              div |-> FALSE,
              ovf |-> \/ ax.ovf \/ ay.ovf
                      \/ AddOvf(p.x, d.dx) \/ AddOvf(p.y, d.dy)]

(***************************************************************************)
(* Source text.  A text is a sequence of character codes.                  *)
(***************************************************************************)
LF == 10
FF == 12
CR == 13

\* the index of the first LF of s at or after i, or Len(s) + 1
RECURSIVE NextLF(_, _)
NextLF(s, i) ==
    IF i > Len(s) \/ s[i] = LF THEN i ELSE NextLF(s, i + 1)

\* str::lines: the text split at LF, a CR right before the LF dropped with
\* it, and no empty last line after a final LF
RECURSIVE LinesFrom(_, _)
LinesFrom(s, i) ==
    IF i > Len(s) THEN << >>
    ELSE LET e == NextLF(s, i)
             f == IF e <= Len(s) /\ e > i /\ s[e - 1] = CR THEN e - 1 ELSE e
         IN  << SubSeq(s, i, f - 1) >> \o LinesFrom(s, e + 1)

Lines(s) == LinesFrom(s, 1)

\* the filter_map of set_line: the characters of the line but form feeds
Filtered(line) == SelectSeq(line, LAMBDA v : v # FF)

\* the loop of Space::set_line over the filtered characters, from column x
RECURSIVE SetCells(_, _, _, _)
SetCells(ft, y, cells, x) ==
    IF x >= Len(cells) THEN ft
    ELSE SetCells(FungeTreeSet(ft, x, y, cells[x + 1]).ft, y, cells, x + 1)

\* Space::set_line; the space after the call and the count l it returns
set_line(sp, y, line) ==
    LET cells == Filtered(line)
        n == Cardinality({x \in 1 .. Len(cells) : cells[x] # SPACE})
    IN  [sp |-> [tree |-> SetCells(sp.tree, y, cells, 0),
                 bounds |-> set_y(sp.bounds, y, n)],
         l |-> Len(cells)]

\* the first loop of Space::read over lines y .. Len(lines) - 1
RECURSIVE ReadLines(_, _, _, _)
ReadLines(sp, lines, y, longest) ==
    IF y >= Len(lines) THEN [sp |-> sp, longest |-> longest]
    ELSE LET r == set_line(sp, y, lines[y + 1])
         IN  ReadLines(r.sp, lines, y + 1, IF r.l > longest THEN r.l ELSE longest)

\* the second loop of Space::read over columns x .. longest - 1
RECURSIVE ReadColumns(_, _, _, _)
ReadColumns(sp, x, longest, n_lines) ==
    IF x >= longest THEN sp
    ELSE LET n == Cardinality({y \in 0 .. n_lines - 1 :
                                 SpaceGet(sp, Point(x, y)) # SPACE})
         IN  ReadColumns([sp EXCEPT !.bounds = set_x(@, x, n)], x + 1, longest, n_lines)

\* Space::read
SpaceRead(code) ==
    LET lines == Lines(code)
        r == ReadLines(SpaceNew, lines, 0, 0)
        sp == ReadColumns(r.sp, 0, r.longest, Len(lines))
    IN  [sp EXCEPT !.bounds = set_min_max(@)]

(***************************************************************************)
(* State                                                                   *)
(***************************************************************************)
VARIABLES
    space,            \* the Space (of the Program: Context.space)
    overflow_checks,  \* the build panics on integer overflow (else it wraps)
    panicked,         \* "" or the reason of the panic that ended the run
    op,               \* the last call made on the Space or the Program
    ret,              \* what that call returned
    source,           \* the text given to Space::read, if it was called
    last,             \* the value last given to Space::set for each point
    nsets             \* the number of calls of Space::set made

spaceVars == << space, overflow_checks, panicked, op, ret, source, last, nsets >>

VARIABLES
    ips,              \* IpData.ips
    current,          \* IpData.current
    exit,             \* IpData.exit
    new_id,           \* IpData.new_id
    hung,             \* the call in progress never returns
    ticks,            \* the number of step_single calls made
    lastTick,         \* the last step_single: the Ip that ticked, its index,
                      \* the length of ips before, the trace, the ids added
                      \* and removed by commit_changes
    round,            \* the step_all in progress or last returned: the ids
                      \* in ips when it began, the ids ticked in order, the
                      \* ids created and deleted, whether it has returned
    quit              \* the first tick that executed q: the value it
                      \* popped and the number of ticks made after it

progVars == << ips, current, exit, new_id, hung, ticks, lastTick, round, quit >>

VARIABLES
    stack             \* a StackStack of its own (the stacks of an Ip are in ips)

VARIABLES
    config            \* the Config (Context.config): the input stream, the
                      \* input buffer, the files written

vars == << spaceVars, progVars, stack, config >>

(***************************************************************************)
(* StackStack (data/stack.rs): a sequence of stacks, the top stack last,   *)
(* each stack a sequence with its top cell last.                           *)
(***************************************************************************)
\* StackStack::new
StackStackNew == << << >> >>

\* StackStack::single
single(ss) == Len(ss) = 1

\* StackStack::push
push(ss, value) == [ss EXCEPT ![Len(ss)] = Append(@, value)]

\* the sequence s from its last element to its first
RECURSIVE Reversed(_)
Reversed(s) ==
    IF s = << >> THEN << >> ELSE << s[Len(s)] >> \o Reversed(SubSeq(s, 1, Len(s) - 1))

\* push_string without `self.push(0)`: the string has no end mark
push_string_unterminated(ss, s) ==
    [n |-> 1 + Len(s),
     ss |-> [ss EXCEPT ![Len(ss)] = @ \o Reversed(s)]]

\* StackStack::push_string of the characters s: the number returned, which
\* starts at 1 and counts every character, and the StackStack left
push_string(ss, s) ==
    [n |-> 1 + Len(s),
     ss |-> [push(ss, 0) EXCEPT ![Len(ss)] = @ \o Reversed(s)]]

\* pop that returns -1 from an empty stack
pop_or_minus_one(ss) ==
    LET top == ss[Len(ss)]
    IN  IF top = << >>
        THEN [v |-> -1, ss |-> ss]
        ELSE [v |-> top[Len(top)],
              ss |-> [ss EXCEPT ![Len(ss)] = SubSeq(top, 1, Len(top) - 1)]]

\* StackStack::pop: the value popped (0 from an empty stack) and the
\* StackStack left
pop(ss) ==
    LET top == ss[Len(ss)]
    IN  IF top = << >>
        THEN [v |-> 0, ss |-> ss]
        ELSE [v |-> top[Len(top)],
              ss |-> [ss EXCEPT ![Len(ss)] = SubSeq(top, 1, Len(top) - 1)]]

\* StackStack::nth for n > 0: the cell top[len - n] of the top stack (the
\* first cell being top[0]), or 0 when n >= len
nth(ss, n) ==
    LET top == ss[Len(ss)]
        len == Len(top)
    IN  IF n >= len THEN 0 ELSE top[(len - n) + 1]

\* StackStack::clear
clear(ss) == [ss EXCEPT ![Len(ss)] = << >>]

\* std::char::from_u32(v as u32) is Some
IsChar(v) == (0 <= v /\ v <= 55295) \/ (57344 <= v /\ v <= 1114111)

\* StackStack::pop_string: the loop with the characters s popped so far,
\* from the value p just popped
RECURSIVE pop_string_loop(_, _)
pop_string_loop(p, s) ==
    IF p.v = 0 THEN [ret |-> Some(s), ss |-> p.ss]
    ELSE IF IsChar(p.v) THEN pop_string_loop(pop(p.ss), Append(s, p.v))
    ELSE [ret |-> None, ss |-> p.ss]

\* StackStack::pop_string: None or Some of the characters, and the
\* StackStack left
pop_string(ss) == pop_string_loop(pop(ss), << >>)

\* vec![0; k]
Zeros(k) == [i \in 1 .. k |-> 0]

\* the vectors of zeros longer than MaxAlloc cells are left out of the model
MaxAlloc == 4

\* the stacks new and rest that create_stack and delete_stack make of the
\* stack from and the count n > 0: `split_off(len - m)`, or the zeros and
\* `split_off(len)`, which is empty
SplitTop(from, n) ==
    LET len == Len(from)
    IN  IF n <= len
        THEN [new |-> SubSeq(from, len - n + 1, len), rest |-> SubSeq(from, 1, len - n)]
        ELSE [new |-> Zeros(n - len), rest |-> from]

\* StackStack::create_stack(n, Point { x, y }): the StackStack left, or the
\* panic of `-n` or of the allocation for n = MinI32
create_stack(ss, n, pt) ==
    LET top == ss[Len(ss)]
    IN  IF n = MinI32
        THEN [ss |-> ss, unmodelled |-> FALSE,
              panic |-> IF overflow_checks THEN "attempt to negate with overflow"
                        ELSE "capacity overflow"]
        ELSE IF n > Len(top) + MaxAlloc \/ -n > MaxAlloc
        THEN [ss |-> ss, unmodelled |-> TRUE, panic |-> ""]
        ELSE IF n > 0
        THEN [ss |-> Append([ss EXCEPT ![Len(ss)] =
                                 SplitTop(top, n).rest \o << pt.x, pt.y >>],
                            SplitTop(top, n).new),
              unmodelled |-> FALSE, panic |-> ""]
        ELSE [ss |-> Append([ss EXCEPT ![Len(ss)] =
                                 top \o Zeros(-n) \o << pt.x, pt.y >>],
                            << >>),
              unmodelled |-> FALSE, panic |-> ""]

\* StackStack::delete_stack(n): the StackStack left and the Point returned,
\* or the panic of the assertion or of `-n`
delete_stack(ss, n) ==
    IF single(ss)
    THEN [ss |-> ss, pt |-> Point(0, 0), unmodelled |-> FALSE,
          panic |-> "assertion failed: !self.single()"]
    ELSE LET old == ss[Len(ss)]
             below == SubSeq(ss, 1, Len(ss) - 1)
             py == pop(below)
             px == pop(py.ss)
             top == px.ss[Len(px.ss)]
         IN  IF n = MinI32 /\ overflow_checks
             THEN [ss |-> ss, pt |-> Point(0, 0), unmodelled |-> FALSE,
                   panic |-> "attempt to negate with overflow"]
             ELSE IF n > Len(old) + MaxAlloc
             THEN [ss |-> ss, pt |-> Point(0, 0), unmodelled |-> TRUE, panic |-> ""]
             ELSE [ss |-> [px.ss EXCEPT ![Len(px.ss)] =
                              IF n > 0 THEN top \o SplitTop(old, n).new
                              ELSE IF n = MinI32 \/ -n >= Len(top) THEN << >>
                              ELSE SubSeq(top, 1, Len(top) + n)],
                   pt |-> Point(px.v, py.v), unmodelled |-> FALSE, panic |-> ""]

\* the loops of StackStack::transfer_elements: k pops of the stack from,
\* each pushed on the stack to
RECURSIVE Transfer(_, _, _)
Transfer(from, to, k) ==
    IF k = 0 THEN [from |-> from, to |-> to]
    ELSE IF from = << >> THEN Transfer(from, Append(to, 0), k - 1)
    ELSE Transfer(SubSeq(from, 1, Len(from) - 1), Append(to, from[Len(from)]), k - 1)

\* StackStack::transfer_elements(n)
transfer_elements(ss, n) ==
    IF single(ss)
    THEN [ss |-> ss, unmodelled |-> FALSE, panic |-> "assertion failed: !self.single()"]
    ELSE IF n = MinI32
    THEN [ss |-> ss, unmodelled |-> FALSE,
          panic |-> IF overflow_checks THEN "attempt to negate with overflow" ELSE ""]
    ELSE IF n > MaxAlloc \/ -n > MaxAlloc
    THEN [ss |-> ss, unmodelled |-> TRUE, panic |-> ""]
    ELSE IF n > 0
    THEN [ss |-> [ss EXCEPT ![Len(ss) - 1] = Transfer(ss[Len(ss) - 1], ss[Len(ss)], n).from,
                            ![Len(ss)] = Transfer(ss[Len(ss) - 1], ss[Len(ss)], n).to],
          unmodelled |-> FALSE, panic |-> ""]
    ELSE [ss |-> [ss EXCEPT ![Len(ss)] = Transfer(ss[Len(ss)], ss[Len(ss) - 1], -n).from,
                            ![Len(ss) - 1] = Transfer(ss[Len(ss)], ss[Len(ss) - 1], -n).to],
          unmodelled |-> FALSE, panic |-> ""]

\* two pops, as the binary instructions make them: b first, then a
Pop2(ss) ==
    LET pb == pop(ss)
        pa == pop(pb.ss)
    IN  [a |-> pa.v, b |-> pb.v, ss |-> pa.ss]

(***************************************************************************)
(* Config (config.rs): the input and the files.  The input stream is the  *)
(* sequence of the characters not yet read, all of them ASCII, so that a  *)
(* character is one byte; input_ok, output_ok and create_ok tell whether   *)
(* read_line, flush and File::create with write_all succeed; files is the  *)
(* sequence of the files written.                                          *)
(***************************************************************************)
\* Config::new, with an input stream at its end
ConfigNew ==
    [input |-> << >>, input_ok |-> TRUE, input_buffer |-> << >>,
     output_ok |-> TRUE, file_view |-> "Real", create_ok |-> TRUE,
     files |-> << >>]

\* the length of the line that BufRead::read_line takes from the stream s:
\* up to and with the first LF, or all of s, from the i characters passed
RECURSIVE LineLength(_, _)
LineLength(s, i) ==
    IF i >= Len(s) THEN Len(s)
    ELSE IF s[i + 1] = 10 THEN i + 1
    ELSE LineLength(s, i + 1)

\* self.input.read_line(&mut self.input_buffer) that succeeds
read_line(cfg) ==
    [cfg EXCEPT !.input_buffer = @ \o SubSeq(cfg.input, 1, LineLength(cfg.input, 0)),
                !.input = SubSeq(@, LineLength(cfg.input, 0) + 1, Len(@))]

\* the Config after the refill of an empty input_buffer
Refilled(cfg) == IF cfg.input_buffer = << >> THEN read_line(cfg) ELSE cfg

\* flush or read_line fails: read_decimal and read_char return None
ReadFails(cfg) == ~cfg.output_ok \/ (cfg.input_buffer = << >> /\ ~cfg.input_ok)

\* Config::read_char: the value returned, the Config left and the panic
read_char(cfg) ==
    IF ReadFails(cfg) THEN [v |-> None, config |-> cfg, panic |-> ""]
    ELSE IF Refilled(cfg).input_buffer = << >>
    THEN [v |-> None, config |-> Refilled(cfg),
          panic |-> "called Option::unwrap() on a None value"]
    ELSE [v |-> Some(Head(Refilled(cfg).input_buffer)),
          config |-> [Refilled(cfg) EXCEPT !.input_buffer = Tail(@)],
          panic |-> ""]

\* the loop of Config::read_decimal over the bytes of buf from index i, st
\* holding found, ret, stop and the panic of an overflow
RECURSIVE read_decimal_loop(_, _, _)
read_decimal_loop(buf, i, st) ==
    IF i >= Len(buf) \/ st.panic # "" THEN st
    ELSE IF buf[i + 1] \in 48 .. 57
    THEN IF overflow_checks /\ MulOvf(st.ret, 10)
         THEN [st EXCEPT !.panic = "attempt to multiply with overflow"]
         ELSE IF overflow_checks /\ AddOvf(WMul(st.ret, 10), buf[i + 1] - 48)
         THEN [st EXCEPT !.panic = "attempt to add with overflow"]
         ELSE read_decimal_loop(buf, i + 1,
                  [st EXCEPT !.found = TRUE,
                             !.ret = WAdd(WMul(st.ret, 10), buf[i + 1] - 48)])
    ELSE IF st.found
    THEN read_decimal_loop(buf, i + 1,
             [st EXCEPT !.stop = IF buf[i + 1] = 10 THEN i + 1 ELSE i])
    ELSE read_decimal_loop(buf, i + 1, st)

\* Config::read_decimal after the refill, st being the outcome of the loop
read_decimal_drained(cfg, st) ==
    IF st.panic # "" THEN [v |-> None, config |-> cfg, panic |-> st.panic]
    ELSE [v |-> Some(st.ret),
          config |-> [cfg EXCEPT !.input_buffer = SubSeq(@, st.stop + 1, Len(@))],
          panic |-> ""]

\* Config::read_decimal: the value returned, the Config left and the panic
read_decimal(cfg) ==
    IF ReadFails(cfg) THEN [v |-> None, config |-> cfg, panic |-> ""]
    ELSE read_decimal_drained(Refilled(cfg),
             read_decimal_loop(Refilled(cfg).input_buffer, 0,
                 [found |-> FALSE, ret |-> 0, stop |-> 0, panic |-> ""]))

\* Config::write_file: whether it succeeded, and the Config left
ConfigWriteFile(cfg, path, data) ==
    IF cfg.file_view = "Deny" \/ ~cfg.create_ok
    THEN [ok |-> FALSE, config |-> cfg]
    ELSE [ok |-> TRUE,
          config |-> [cfg EXCEPT !.files = Append(@, [path |-> path, data |-> data])]]

(***************************************************************************)
(* Ip (program/ip.rs) and its instructions (program/ip/instruction.rs).    *)
(* A tick works on a record m: the Ip, the Space, the Config and the       *)
(* Control buffer of                                                       *)
(* the Context, the trace handed to Config::do_trace, the panic that ended *)
(* the tick (or ""), whether the tick never returns (hang), and whether it *)
(* met an instruction that is not modelled.                                *)
(***************************************************************************)
\* Ip::new
IpNew ==
    [id |-> 0, position |-> Point(-1, 0), delta |-> Delta(1, 0),
     storage |-> Point(0, 0), stacks |-> StackStackNew,
     string |-> FALSE, saw_space |-> FALSE]

\* the ExecResult values pushed to Control
AddIp(ip) == [kind |-> "AddIp", ip |-> << ip >>, v |-> 0]
DeleteIp == [kind |-> "DeleteIp", ip |-> << >>, v |-> 0]
Terminate(v) == [kind |-> "Terminate", ip |-> << >>, v |-> v]

Stopped(m) == m.panic # "" \/ m.hang \/ m.unmodelled

Panic(m, msg) == [m EXCEPT !.panic = msg]

\* Ip::step: the assignment of the outcome r of Space::new_position
step_to(m, r) ==
    IF overflow_checks /\ r.ovf THEN Panic(m, "arithmetic overflow")
    ELSE IF r.div THEN Panic(m, "attempt to divide with overflow")
    ELSE [m EXCEPT !.ip.position = r.pos]

\* Ip::step
step(m) == step_to(m, new_position(m.space, m.ip.position, m.ip.delta))

\* Ip::get_current
get_current(m) == SpaceGet(m.space, m.ip.position)

\* Ip::find_command.  seen holds the (position, skip) pairs the loop has been
\* in: the loop is deterministic, so meeting one again means it never ends.
RECURSIVE find_command_loop(_, _, _)
RECURSIVE find_command_match(_, _, _, _)

\* the match without the arm of 59: the search returns on a semicolon
find_command_match_on_semicolon(m, skip, seen, v) ==
    IF v # 32 /\ ~skip THEN m
    ELSE IF << m.ip.position, skip >> \in seen THEN [m EXCEPT !.hang = TRUE]
    ELSE find_command_loop(step(m), skip, seen \cup { << m.ip.position, skip >> })

\* the match on the value v at the position of the Ip
find_command_match(m, skip, seen, v) ==
    IF v # 32 /\ v # 59 /\ ~skip THEN m
    ELSE IF << m.ip.position, skip >> \in seen THEN [m EXCEPT !.hang = TRUE]
    ELSE find_command_loop(step(m), IF v = 59 THEN ~skip ELSE skip,
                           seen \cup { << m.ip.position, skip >> })

find_command_loop(m, skip, seen) ==
    IF Stopped(m) THEN m
    ELSE find_command_match(m, skip, seen, get_current(m))

find_command(m) == find_command_loop(m, FALSE, {})

\* Ip::peek_command: the value found, or the panic or hang of the search
peek_result(f) == [v |-> get_current(f), panic |-> f.panic, hang |-> f.hang]

peek_command(m) == peek_result(find_command(step(m)))

\* Ip::skip_space
RECURSIVE skip_space_loop(_, _)
skip_space_loop(m, seen) ==
    IF Stopped(m) \/ get_current(m) # 32 THEN m
    ELSE IF m.ip.position \in seen THEN [m EXCEPT !.hang = TRUE]
    ELSE skip_space_loop(step(m), seen \cup { m.ip.position })

skip_space(m) == skip_space_loop(m, {})

\* Ip::set_delta
set_delta(m, d) == [m EXCEPT !.ip.delta = d]

\* Ip::push
IpPush(m, value) == [m EXCEPT !.ip.stacks = push(@, value)]

\* a push of the result v of an operation that overflows when ovf
PushChecked(m, v, ovf) ==
    IF ovf /\ overflow_checks THEN Panic(m, "arithmetic overflow")
    ELSE IpPush(m, v)

\* a new delta whose computation overflows when ovf
DeltaChecked(m, d, ovf) ==
    IF ovf /\ overflow_checks THEN Panic(m, "arithmetic overflow")
    ELSE set_delta(m, d)

go_east(m) == set_delta(m, Delta(1, 0))
go_south(m) == set_delta(m, Delta(0, 1))
go_west(m) == set_delta(m, Delta(-1, 0))
go_north(m) == set_delta(m, Delta(0, -1))

trampoline(m) ==
    IF overflow_checks /\ is_last_ovf(m.space, m.ip.position, m.ip.delta)
    THEN Panic(m, "arithmetic overflow")
    ELSE IF ~is_last(m.space, m.ip.position, m.ip.delta) THEN step(m)
    ELSE m

\* Delta::reverse, rotate_left, rotate_right
reverse(d) == Delta(WNeg(d.dx), WNeg(d.dy))
rotate_left(d) == Delta(d.dy, WNeg(d.dx))
rotate_right(d) == Delta(WNeg(d.dy), d.dx)

reflect(m) ==
    DeltaChecked(m, reverse(m.ip.delta),
                 m.ip.delta.dx = MinI32 \/ m.ip.delta.dy = MinI32)

turn_left(m) ==
    DeltaChecked(m, rotate_left(m.ip.delta), m.ip.delta.dx = MinI32)

turn_right(m) ==
    DeltaChecked(m, rotate_right(m.ip.delta), m.ip.delta.dy = MinI32)

absolute_delta(m) ==
    LET p == Pop2(m.ip.stacks)
    IN  [m EXCEPT !.ip.stacks = p.ss, !.ip.delta = Delta(p.a, p.b)]

jump(m) ==
    LET p == pop(m.ip.stacks)
        d == m.ip.delta
        far == Delta(WMul(d.dx, p.v), WMul(d.dy, p.v))
        m1 == [m EXCEPT !.ip.stacks = p.ss]
    IN  IF overflow_checks /\ (MulOvf(d.dx, p.v) \/ MulOvf(d.dy, p.v))
        THEN Panic(m1, "arithmetic overflow")
        ELSE set_delta(step(set_delta(m1, far)), d)

stop(m) == [m EXCEPT !.control = Append(@, DeleteIp)]

terminate(m) ==
    LET p == pop(m.ip.stacks)
    IN  [m EXCEPT !.ip.stacks = p.ss, !.control = Append(@, Terminate(p.v))]

negate(m) ==
    LET p == pop(m.ip.stacks)
    IN  [m EXCEPT !.ip.stacks = push(p.ss, IF p.v = 0 THEN 1 ELSE 0)]

greater_than(m) ==
    LET p == Pop2(m.ip.stacks)
    IN  [m EXCEPT !.ip.stacks = push(p.ss, IF p.a > p.b THEN 1 ELSE 0)]

if_east_west(m) ==
    LET p == pop(m.ip.stacks)
        m1 == [m EXCEPT !.ip.stacks = p.ss]
    IN  IF p.v = 0 THEN go_east(m1) ELSE go_west(m1)

if_north_south(m) ==
    LET p == pop(m.ip.stacks)
        m1 == [m EXCEPT !.ip.stacks = p.ss]
    IN  IF p.v = 0 THEN go_south(m1) ELSE go_north(m1)

compare(m) ==
    LET p == Pop2(m.ip.stacks)
        m1 == [m EXCEPT !.ip.stacks = p.ss]
    IN  IF p.a < p.b THEN turn_left(m1)
        ELSE IF p.a > p.b THEN turn_right(m1)
        ELSE m1

discard(m) == [m EXCEPT !.ip.stacks = pop(@).ss]

\* duplicate with one push instead of two
duplicate_once(m) ==
    LET p == pop(m.ip.stacks)
    IN  [m EXCEPT !.ip.stacks = push(p.ss, p.v)]

duplicate(m) ==
    LET p == pop(m.ip.stacks)
    IN  [m EXCEPT !.ip.stacks = push(push(p.ss, p.v), p.v)]

swap(m) ==
    LET pv == pop(m.ip.stacks)
        pw == pop(pv.ss)
    IN  [m EXCEPT !.ip.stacks = push(push(pw.ss, pv.v), pw.v)]

IpClear(m) == [m EXCEPT !.ip.stacks = clear(@)]

\* the Ip after a call r on its StackStack, which may have panicked
StacksCalled(m, r) ==
    IF r.panic # "" THEN Panic(m, r.panic)
    ELSE IF r.unmodelled THEN [m EXCEPT !.unmodelled = TRUE]
    ELSE [m EXCEPT !.ip.stacks = r.ss]

\* begin_block after create_stack: `self.storage = self.position + self.delta`
begin_block_created(m) ==
    IF Stopped(m) THEN m
    ELSE IF overflow_checks /\ (AddOvf(m.ip.position.x, m.ip.delta.dx)
                                \/ AddOvf(m.ip.position.y, m.ip.delta.dy))
    THEN Panic(m, "attempt to add with overflow")
    ELSE [m EXCEPT !.ip.storage = Point(WAdd(m.ip.position.x, m.ip.delta.dx),
                                        WAdd(m.ip.position.y, m.ip.delta.dy))]

begin_block(m) ==
    begin_block_created(
        StacksCalled(m, create_stack(pop(m.ip.stacks).ss, pop(m.ip.stacks).v,
                                     m.ip.storage)))

\* end_block for a StackStack of two stacks or more, r being what
\* delete_stack returns
end_block_deleted(m, r) ==
    IF r.panic # "" \/ r.unmodelled THEN StacksCalled(m, r)
    ELSE [m EXCEPT !.ip.stacks = r.ss, !.ip.storage = r.pt]

\* end_block without the test of single(): the top stack is dropped
\* whatever is below it
end_block_drops_last(m) ==
    [m EXCEPT !.ip.stacks = SubSeq(@, 1, Len(@) - 1)]

end_block(m) ==
    IF single(m.ip.stacks) THEN reflect(m)
    ELSE end_block_deleted(m, delete_stack(pop(m.ip.stacks).ss, pop(m.ip.stacks).v))

\* dig without the test of single()
dig_unguarded(m) ==
    StacksCalled(m, transfer_elements(pop(m.ip.stacks).ss, pop(m.ip.stacks).v))

dig(m) ==
    IF single(m.ip.stacks) THEN reflect(m)
    ELSE StacksCalled(m, transfer_elements(pop(m.ip.stacks).ss, pop(m.ip.stacks).v))

add(m) ==
    LET p == Pop2(m.ip.stacks)
    IN  PushChecked([m EXCEPT !.ip.stacks = p.ss], WAdd(p.a, p.b), AddOvf(p.a, p.b))

sub(m) ==
    LET p == Pop2(m.ip.stacks)
    IN  PushChecked([m EXCEPT !.ip.stacks = p.ss], WSub(p.a, p.b), SubOvf(p.a, p.b))

mul(m) ==
    LET p == Pop2(m.ip.stacks)
    IN  PushChecked([m EXCEPT !.ip.stacks = p.ss], WMul(p.a, p.b), MulOvf(p.a, p.b))

\* div that reflects on a zero divisor instead of pushing 0
div_zero_reflects(m) ==
    LET p == Pop2(m.ip.stacks)
        m1 == [m EXCEPT !.ip.stacks = p.ss]
    IN  IF p.b = 0 THEN reflect(m1)
        ELSE IF DivOvf(p.a, p.b) THEN Panic(m1, "attempt to divide with overflow")
        ELSE IpPush(m1, TDiv(p.a, p.b))

div(m) ==
    LET p == Pop2(m.ip.stacks)
        m1 == [m EXCEPT !.ip.stacks = p.ss]
    IN  IF p.b = 0 THEN IpPush(m1, 0)
        ELSE IF DivOvf(p.a, p.b) THEN Panic(m1, "attempt to divide with overflow")
        ELSE IpPush(m1, TDiv(p.a, p.b))

rem(m) ==
    LET p == Pop2(m.ip.stacks)
        m1 == [m EXCEPT !.ip.stacks = p.ss]
    IN  IF p.b = 0 THEN IpPush(m1, 0)
        ELSE IF DivOvf(p.a, p.b)
        THEN Panic(m1, "attempt to calculate the remainder with overflow")
        ELSE IpPush(m1, p.a - p.b * TDiv(p.a, p.b))

string_mode(m) == [m EXCEPT !.ip.string = TRUE]

split(m) ==
    LET r == reflect(m)
    IN  IF r.panic # "" THEN r
        ELSE [m EXCEPT !.control = Append(@, AddIp(r.ip))]

\* Point + Delta, and whether one of its two additions overflows
PointAdd(p, d) == Point(WAdd(p.x, d.dx), WAdd(p.y, d.dy))
PointAddOvf(p, d) == AddOvf(p.x, d.dx) \/ AddOvf(p.y, d.dy)

\* ctx.space.set(p + d, v)
IpSet(m, p, d, v) ==
    IF overflow_checks /\ PointAddOvf(p, d)
    THEN Panic(m, "attempt to add with overflow")
    ELSE IF overflow_checks /\ SpaceSetUnderflow(m.space, PointAdd(p, d), v)
    THEN Panic(m, "attempt to subtract with overflow")
    ELSE [m EXCEPT !.space = SpaceSet(@, PointAdd(p, d), v)]

\* the push of ctx.space.get(p + d)
IpGet(m, p, d) ==
    IF overflow_checks /\ PointAddOvf(p, d)
    THEN Panic(m, "attempt to add with overflow")
    ELSE IpPush(m, SpaceGet(m.space, PointAdd(p, d)))

\* step after an instruction that may have panicked
StepOn(m) == IF Stopped(m) THEN m ELSE step(m)

fetch_char(m) ==
    IF overflow_checks /\ is_last_ovf(m.space, m.ip.position, m.ip.delta)
    THEN Panic(m, "arithmetic overflow")
    ELSE IF is_last(m.space, m.ip.position, m.ip.delta) THEN step(IpPush(m, 32))
    ELSE StepOn(IpGet(m, m.ip.position, m.ip.delta))

store_char(m) ==
    StepOn(IpSet([m EXCEPT !.ip.stacks = pop(@).ss], m.ip.position, m.ip.delta,
                 pop(m.ip.stacks).v))

\* get: the pops of dy and dx, then the push of the cell
get(m) ==
    IpGet([m EXCEPT !.ip.stacks = Pop2(@).ss], m.ip.storage,
          Delta(Pop2(m.ip.stacks).a, Pop2(m.ip.stacks).b))

\* put: the pops of dy, dx and v, then the set of the cell
put(m) ==
    IpSet([m EXCEPT !.ip.stacks = pop(Pop2(@).ss).ss], m.ip.storage,
          Delta(Pop2(m.ip.stacks).a, Pop2(m.ip.stacks).b),
          pop(Pop2(m.ip.stacks).ss).v)

\* the Ip after the call r of Config::read_decimal or Config::read_char
InputRead(m, r) ==
    IF r.panic # "" THEN Panic([m EXCEPT !.config = r.config], r.panic)
    ELSE IF r.v = None THEN reflect([m EXCEPT !.config = r.config])
    ELSE IpPush([m EXCEPT !.config = r.config], r.v[1])

input_decimal(m) == InputRead(m, read_decimal(m.config))

input_char(m) == InputRead(m, read_char(m.config))

\* the rectangles that write_file is modelled for: up to MaxRect cells a side
MaxRect == 3

Spaces(n) == [i \in 1 .. n |-> 32]
Newlines(n) == [i \in 1 .. n |-> 10]

\* write_file: the body of the inner loop for the value v of a cell, which
\* is the first of its row (i == x) or not; st holds s, spaces, newlines,
\* whether a cell was no char (bad) and the panic of an overflow
write_file_cell(st, first, v) ==
    IF v = 32 THEN [st EXCEPT !.spaces = @ + 1]
    ELSE IF ~IsChar(v) THEN [st EXCEPT !.bad = TRUE]
    ELSE [st EXCEPT !.s = Append(st.s \o Spaces(st.spaces)
                                   \o (IF first THEN Newlines(st.newlines)
                                       ELSE << >>), v),
                    !.spaces = 0,
                    !.newlines = IF first THEN 0 ELSE @]

\* write_file: the loops over the rows j - y = j and the cells i - x = k of
\* the rectangle r
RECURSIVE write_file_cells(_, _, _, _, _)
RECURSIVE write_file_cells_next(_, _, _, _, _)
RECURSIVE write_file_rows(_, _, _, _)
RECURSIVE write_file_row_end(_, _, _, _)

write_file_cells(m, r, j, k, st) ==
    IF k >= r.w THEN st
    ELSE IF overflow_checks /\ (AddOvf(WAdd(r.x, k), m.ip.storage.x)
                                \/ AddOvf(WAdd(r.y, j), m.ip.storage.y))
    THEN [st EXCEPT !.panic = "attempt to add with overflow"]
    ELSE write_file_cells_next(m, r, j, k,
             write_file_cell(st, k = 0,
                 SpaceGet(m.space, Point(WAdd(WAdd(r.x, k), m.ip.storage.x),
                                         WAdd(WAdd(r.y, j), m.ip.storage.y)))))

\* `i += 1`
write_file_cells_next(m, r, j, k, st) ==
    IF st.bad THEN st
    ELSE IF overflow_checks /\ AddOvf(WAdd(r.x, k), 1)
    THEN [st EXCEPT !.panic = "attempt to add with overflow"]
    ELSE write_file_cells(m, r, j, k + 1, st)

write_file_rows(m, r, j, st) ==
    IF j >= r.h THEN st
    ELSE write_file_row_end(m, r, j, write_file_cells(m, r, j, 0, st))

\* the end of a row: the pending spaces unless trim_right, then `j += 1`
write_file_row_end(m, r, j, st) ==
    IF st.bad \/ st.panic # "" THEN st
    ELSE IF overflow_checks /\ AddOvf(WAdd(r.y, j), 1)
    THEN [st EXCEPT !.panic = "attempt to add with overflow"]
    ELSE write_file_rows(m, r, j + 1,
             [st EXCEPT !.s = IF r.trim_right THEN @ ELSE @ \o Spaces(st.spaces),
                        !.newlines = @ + 1,
                        !.spaces = 0])

\* the text after the loops: the pending newlines but one unless
\* trim_right, then a newline
write_file_text(r, st) ==
    st.s \o (IF r.trim_right \/ st.newlines < 2 THEN << >>
             ELSE Newlines(st.newlines - 1)) \o << 10 >>

\* the end of write_file, w being what Config::write_file returned
write_file_written(m, w) ==
    IF w.ok THEN [m EXCEPT !.config = w.config] ELSE reflect(m)

\* write_file after the loops
write_file_looped(m, path, r, st) ==
    IF st.panic # "" THEN Panic(m, st.panic)
    ELSE IF st.bad THEN reflect(m)
    ELSE write_file_written(m, ConfigWriteFile(m.config, path, write_file_text(r, st)))

\* the five pops of write_file from ss: v, y, x, h, w
Rectangle(ss) ==
    [trim_right |-> pop(ss).v % 2 = 1,
     y |-> pop(pop(ss).ss).v,
     x |-> pop(pop(pop(ss).ss).ss).v,
     h |-> pop(pop(pop(pop(ss).ss).ss).ss).v,
     w |-> pop(pop(pop(pop(pop(ss).ss).ss).ss).ss).v,
     ss |-> pop(pop(pop(pop(pop(ss).ss).ss).ss).ss).ss]

\* write_file for the path and the rectangle r popped
write_file_popped(m, path, r) ==
    IF r.h > MaxRect \/ r.w > MaxRect THEN [m EXCEPT !.unmodelled = TRUE]
    ELSE write_file_looped([m EXCEPT !.ip.stacks = r.ss], path, r,
             write_file_rows(m, r, 0,
                 [s |-> << >>, spaces |-> 0, newlines |-> 0, bad |-> FALSE,
                  panic |-> ""]))

\* write_file after pop_string has returned p
write_file_path(m, p) ==
    IF p.ret = None THEN reflect([m EXCEPT !.ip.stacks = p.ss])
    ELSE write_file_popped(m, p.ret[1], Rectangle(p.ss))

write_file(m) == write_file_path(m, pop_string(m.ip.stacks))

\* is_idempotent with t among the commands that k executes once
is_idempotent_with_t(c) == c \in { 60, 62, 63, 64, 94, 110, 113, 116, 118, 122 }

is_idempotent(c) == c \in { 60, 62, 63, 64, 94, 110, 113, 118, 122 }

\* the instructions left out of the model: ( ) , . = ? i y
Unmodelled ==
    { 40, 41, 44, 46, 61, 63, 105, 121 }

\* Ip::execute, Ip::iterate and the loop of iterate
RECURSIVE execute(_, _)
RECURSIVE iterate(_)
RECURSIVE iterate_popped(_, _)
RECURSIVE iterate_peeked(_, _, _)
RECURSIVE execute_times(_, _, _)

\* the call of Config::do_trace that ends execute, r being the outcome of
\* the instruction
do_trace(r, command) ==
    IF Stopped(r) THEN r
    ELSE [r EXCEPT !.trace = Append(@, [id |-> r.ip.id, command |-> command])]

execute_times(m, c, n) ==
    IF n = 0 \/ Stopped(m) THEN m
    ELSE execute_times(execute(m, c), c, n - 1)

\* iterate for n > 0, pk being the outcome of peek_command
iterate_peeked(m, n, pk) ==
    IF pk.panic # "" THEN Panic(m, pk.panic)
    ELSE IF pk.hang THEN [m EXCEPT !.hang = TRUE]
    ELSE IF IsChar(pk.v)
    THEN IF ~is_idempotent(pk.v)
         THEN execute_times(m, pk.v, n)
         ELSE execute(m, pk.v)
    ELSE reflect(m)

\* iterate after the pop of n
iterate_popped(m, n) ==
    IF n <= 0
    THEN IF n = 0 THEN step(m) ELSE m
    ELSE iterate_peeked(m, n, peek_command(m))

iterate(m) ==
    iterate_popped([m EXCEPT !.ip.stacks = pop(@).ss], pop(m.ip.stacks).v)

execute(m, command) ==
    do_trace(CASE command = 32 -> Panic(m, "attempted to execute ' '")
               [] command = 33 -> negate(m)
               [] command = 34 -> string_mode(m)
               [] command = 35 -> trampoline(m)
               [] command = 36 -> discard(m)
               [] command = 37 -> rem(m)
               [] command = 38 -> input_decimal(m)
               [] command = 39 -> fetch_char(m)
               [] command = 42 -> mul(m)
               [] command = 43 -> add(m)
               [] command = 45 -> sub(m)
               [] command = 47 -> div(m)
               [] command \in 48 .. 57 -> IpPush(m, command - 48)
               [] command = 58 -> duplicate(m)
               [] command = 59 -> Panic(m, "attempted to execute ';'")
               [] command = 60 -> go_west(m)
               [] command = 62 -> go_east(m)
               [] command = 64 -> stop(m)
               [] command = 91 -> turn_left(m)
               [] command = 92 -> swap(m)
               [] command = 93 -> turn_right(m)
               [] command = 94 -> go_north(m)
               [] command = 95 -> if_east_west(m)
               [] command = 96 -> greater_than(m)
               [] command \in 97 .. 102 -> IpPush(m, command - 87)
               [] command = 103 -> get(m)
               [] command = 106 -> jump(m)
               [] command = 107 -> iterate(m)
               [] command = 110 -> IpClear(m)
               [] command = 111 -> write_file(m)
               [] command = 112 -> put(m)
               [] command = 115 -> store_char(m)
               [] command = 117 -> dig(m)
               [] command = 123 -> begin_block(m)
               [] command = 125 -> end_block(m)
               [] command = 113 -> terminate(m)
               [] command = 116 -> split(m)
               [] command = 118 -> go_south(m)
               [] command = 119 -> compare(m)
               [] command = 120 -> absolute_delta(m)
               [] command = 122 -> m
               [] command = 124 -> if_north_south(m)
               [] command = 126 -> input_char(m)
               [] command \in Unmodelled -> [m EXCEPT !.unmodelled = TRUE]
               [] OTHER -> reflect(m),
             command)

\* tick_value without `self.saw_space = v == 32`: skip_space is never called
tick_value_every_space(m, v) ==
    IF m.ip.string
    THEN [m EXCEPT !.ip.string = (v # 34),
                   !.ip.stacks = IF v = 34 THEN @ ELSE push(@, v)]
    ELSE IF IsChar(v) THEN execute(m, v)
    ELSE reflect(m)

\* Ip::tick
\* tick from the read of the value v at the position reached
tick_value(m, v) ==
    IF m.ip.string
    THEN [m EXCEPT !.ip.string = (v # 34),
                   !.ip.stacks = IF v = 34 THEN @ ELSE push(@, v),
                   !.ip.saw_space = (v = 32)]
    ELSE IF IsChar(v) THEN execute(m, v)
    ELSE reflect(m)

\* tick that returns on the closing quote before `self.saw_space = v == 32`
tick_found_keeps_saw_space(m) ==
    IF Stopped(m) THEN m
    ELSE IF m.ip.string /\ get_current(m) = 34 THEN [m EXCEPT !.ip.string = FALSE]
    ELSE tick_value(m, get_current(m))

\* tick after the search of the next command
tick_found(m) == IF Stopped(m) THEN m ELSE tick_value(m, get_current(m))

\* tick after its step
tick_stepped(m) ==
    tick_found(IF Stopped(m) THEN m
               ELSE IF ~m.ip.string THEN find_command(m)
               ELSE IF m.ip.saw_space THEN skip_space(m)
               ELSE m)

tick(m) == tick_stepped(step(m))

(***************************************************************************)
(* Program (program.rs).  IpData is the record d of ips, current, exit and *)
(* new_id; ips is a sequence, so ips[current + 1] is the Ip at index       *)
(* current.                                                                *)
(***************************************************************************)
\* an insert that puts e after the element at index i
VecInsertAfter(s, i, e) ==
    SubSeq(s, 1, i + 1) \o << e >> \o SubSeq(s, i + 2, Len(s))

\* Vec::insert and Vec::remove at index i
VecInsert(s, i, e) == SubSeq(s, 1, i) \o << e >> \o SubSeq(s, i + 1, Len(s))
VecRemove(s, i) == SubSeq(s, 1, i) \o SubSeq(s, i + 2, Len(s))

\* 2^64 modulo n, for a usize of 64 bits
TwoTo64Mod(n) ==
    LET p32 == (2 * (((MaxI32 % n) + 1) % n)) % n
    IN  (p32 * p32) % n

\* the loop of Context::commit_changes over the drained Control buffer; c
\* carries the IpData, the local offset, the panic met, and the ids of the
\* Ips added and removed
\* the loop of commit_changes without `ip_data.new_id += 1`: every Ip added
\* receives the same id
RECURSIVE drain_same_id(_, _, _)
drain_same_id(c, control, i) ==
    IF i > Len(control) \/ c.panic # "" THEN c
    ELSE LET result == control[i]
         IN  CASE result.kind = "AddIp" ->
                    drain_same_id([c EXCEPT
                                  !.ips = VecInsert(@, c.current,
                                              [result.ip[1] EXCEPT !.id = c.new_id]),
                                  !.offset = @ + 1,
                                  !.added = Append(@, c.new_id)],
                               control, i + 1)
               [] result.kind = "DeleteIp" ->
                    IF c.current >= Len(c.ips)
                    THEN [c EXCEPT !.panic = "removal index out of bounds"]
                    ELSE drain_same_id([c EXCEPT
                                  !.ips = VecRemove(@, c.current),
                                  !.offset = @ - 1,
                                  !.removed = Append(@, c.ips[c.current + 1].id)],
                               control, i + 1)
               [] result.kind = "Terminate" ->
                    drain_same_id([c EXCEPT !.exit = Some(result.v)], control, i + 1)

\* the loop of Context::commit_changes over the drained Control, from its
\* i-th result on
RECURSIVE drain(_, _, _)
drain(c, control, i) ==
    IF i > Len(control) \/ c.panic # "" THEN c
    ELSE LET result == control[i]
         IN  CASE result.kind = "AddIp" ->
                    IF overflow_checks /\ AddOvf(c.new_id, 1)
                    THEN [c EXCEPT !.panic = "arithmetic overflow"]
                    ELSE drain([c EXCEPT
                                  !.ips = VecInsert(@, c.current,
                                              [result.ip[1] EXCEPT !.id = c.new_id]),
                                  !.new_id = WAdd(@, 1),
                                  !.offset = @ + 1,
                                  !.added = Append(@, c.new_id)],
                               control, i + 1)
               [] result.kind = "DeleteIp" ->
                    IF c.current >= Len(c.ips)
                    THEN [c EXCEPT !.panic = "removal index out of bounds"]
                    ELSE drain([c EXCEPT
                                  !.ips = VecRemove(@, c.current),
                                  !.offset = @ - 1,
                                  !.removed = Append(@, c.ips[c.current + 1].id)],
                               control, i + 1)
               [] result.kind = "Terminate" ->
                    drain([c EXCEPT !.exit = Some(result.v)], control, i + 1)

\* Context::commit_changes after the loop
commit_drained(c) ==
    LET len == Len(c.ips)
        sum == len + c.offset
    IN  IF c.panic # "" THEN c
        ELSE IF len = 0 /\ c.exit = None THEN [c EXCEPT !.exit = Some(0)]
        ELSE IF len = 0
        THEN [c EXCEPT !.panic =
                  "attempt to calculate the remainder with a divisor of zero"]
        ELSE IF sum >= 0 THEN [c EXCEPT !.current = (@ + sum) % len]
        ELSE IF c.current + sum >= 0
        THEN IF overflow_checks
             THEN [c EXCEPT !.panic = "arithmetic overflow"]
             ELSE [c EXCEPT !.current = (@ + sum) % len]
        ELSE [c EXCEPT !.current =
                  (TwoTo64Mod(len) + ((@ + sum) % len)) % len]

\* Context::commit_changes
commit_changes(d, control) ==
    commit_drained(drain([ips |-> d.ips, current |-> d.current, exit |-> d.exit,
                          new_id |-> d.new_id, offset |-> 1, panic |-> "",
                          added |-> << >>, removed |-> << >>], control, 1))

\* Program::step_single on the IpData d and the Space sp: the tick of
\* ips[current], then commit_changes
step_single_committed(d, m, c) ==
    [d |-> IF c.panic # "" THEN d
           ELSE [ips |-> c.ips, current |-> c.current,
                 exit |-> c.exit, new_id |-> c.new_id],
     space |-> m.space, config |-> m.config, panic |-> c.panic, hang |-> FALSE,
     unmodelled |-> FALSE, trace |-> m.trace, control |-> m.control,
     added |-> c.added, removed |-> c.removed]

step_single_ticked(d, sp, m) ==
    IF Stopped(m)
    THEN [d |-> d, space |-> sp, config |-> m.config, panic |-> m.panic,
          hang |-> m.hang,
          unmodelled |-> m.unmodelled, trace |-> m.trace,
          control |-> m.control, added |-> << >>, removed |-> << >>]
    ELSE step_single_committed(d, m,
             commit_changes([d EXCEPT !.ips[d.current + 1] = m.ip], m.control))

step_single(d, sp, cfg) ==
    IF d.current >= Len(d.ips)
    THEN [d |-> d, space |-> sp, config |-> cfg,
          panic |-> "index out of bounds", hang |-> FALSE,
          unmodelled |-> FALSE, trace |-> << >>, control |-> << >>,
          added |-> << >>, removed |-> << >>]
    ELSE step_single_ticked(d, sp,
             tick([ip |-> d.ips[d.current + 1], space |-> sp, config |-> cfg,
                   control |-> << >>, trace |-> << >>, panic |-> "",
                   hang |-> FALSE, unmodelled |-> FALSE]))

\* no step_all, no step_single and no q yet
NoRound ==
    [start |-> << >>, ticked |-> << >>, created |-> {}, deleted |-> {},
     done |-> FALSE]
NoTick ==
    [id |-> -1, index |-> 0, len |-> 0, trace |-> << >>, added |-> << >>,
     removed |-> << >>, pre |-> IpNew, ids |-> << >>]
NoQuit == [seen |-> FALSE, after |-> 0, v |-> 0]

\* Program::init: the IpData of a new Program
ProgramNew ==
    /\ ips = << IpNew >>
    /\ current = 0
    /\ exit = None
    /\ new_id = 1
    /\ hung = FALSE
    /\ ticks = 0
    /\ lastTick = NoTick
    /\ round = NoRound
    /\ quit = NoQuit


(***************************************************************************)
(* The Space on its own: Space::new, then Space::read or a few Space::set  *)
(* calls, then one query (get or new_position).                            *)
(***************************************************************************)
MaxSets == 3

\* the points the calls are made on
TestPoints ==
    { Point(0, 0), Point(3, 2), Point(16, 0), Point(-2, -1), Point(MaxI32, MinI32) }

TestValues == { SPACE, 40 }

\* the source texts read: "12\n3", " a  b\nc d\n e" (the text of the test
\* space_read_bounds), "a" followed by sixteen spaces, and a text with a
\* form feed and carriage returns
Codes ==
    { << 49, 50, LF, 51 >>,
      << 32, 97, 32, 32, 98, LF, 99, 32, 100, LF, 32, 101 >>,
      << 97 >> \o [i \in 1 .. 16 |-> SPACE],
      << 97, FF, 98, CR, LF, 99, CR, 100 >> }

TestDeltas ==
    { Delta(1, 0), Delta(-1, 0), Delta(0, 1), Delta(2, -3), Delta(0, 0),
      Delta(MinI32, 0) }

\* the points new_position is asked about: the corners of the bounding box
\* and the position of a new Ip
WrapPoints(sp) ==
    { Point(sp.bounds.min_x, sp.bounds.min_y),
      Point(sp.bounds.max_x, sp.bounds.max_y),
      Point(-1, 0) }

\* the cells Space::read sets: column x of line y for every character that
\* passes the filter of set_line
ReadCells(code) ==
    LET lines == Lines(code)
    IN  UNION { { Point(x, y) : x \in 0 .. Len(Filtered(lines[y + 1])) - 1 } :
                y \in 0 .. Len(lines) - 1 }

ReadValue(code, pt) == Filtered(Lines(code)[pt.y + 1])[pt.x + 1]

\* the points written since Space::new, by read or by set
Written ==
    DOMAIN last \cup (IF source = None THEN {} ELSE ReadCells(source[1]))

\* the value last written to a point, 32 if none was
Content(pt) ==
    IF pt \in DOMAIN last THEN last[pt]
    ELSE IF source # None /\ pt \in ReadCells(source[1]) THEN ReadValue(source[1], pt)
    ELSE SPACE

Queries == { "get", "new_position" }

SpaceInit ==
    /\ space = SpaceNew
    /\ overflow_checks \in BOOLEAN
    /\ panicked = ""
    /\ op = [kind |-> "new"]
    /\ ret = None
    /\ source = None
    /\ last = << >>
    /\ nsets = 0
    /\ ProgramNew
    /\ stack = StackStackNew
    /\ config = ConfigNew

\* Space::read(code)
Read(code) ==
    /\ op.kind = "new"
    /\ space' = SpaceRead(code)
    /\ op' = [kind |-> "read"]
    /\ source' = Some(code)
    /\ UNCHANGED << overflow_checks, panicked, ret, last, nsets >>
    /\ UNCHANGED << progVars, stack, config >>

\* space.set(p, v); fresh records that p had not been written before
Set(p, v) ==
    /\ op.kind \notin Queries
    /\ panicked = ""
    /\ nsets < MaxSets
    /\ nsets' = nsets + 1
    /\ op' = [kind |-> "set", p |-> p, v |-> v, fresh |-> p \notin Written]
    /\ space' = SpaceSet(space, p, v)
    /\ panicked' = IF overflow_checks /\ SpaceSetUnderflow(space, p, v)
                   THEN "attempt to subtract with overflow" ELSE ""
    /\ last' = [pt \in DOMAIN last \cup {p} |-> IF pt = p THEN v ELSE last[pt]]
    /\ UNCHANGED << overflow_checks, ret, source >>
    /\ UNCHANGED << progVars, stack, config >>

\* space.get(p)
Get(p) ==
    /\ op.kind \notin Queries
    /\ panicked = ""
    /\ op' = [kind |-> "get", p |-> p]
    /\ ret' = Some(SpaceGet(space, p))
    /\ UNCHANGED << space, overflow_checks, panicked, source, last, nsets >>
    /\ UNCHANGED << progVars, stack, config >>

\* space.new_position(p, d)
NewPosition(p, d) ==
    /\ op.kind \notin Queries
    /\ panicked = ""
    /\ op' = [kind |-> "new_position", p |-> p, d |-> d]
    /\ LET r == new_position(space, p, d)
       IN  IF r.div THEN
                /\ panicked' = "attempt to divide with overflow"
                /\ ret' = None
           ELSE IF overflow_checks /\ r.ovf THEN
                /\ panicked' = "arithmetic overflow"
                /\ ret' = None
           ELSE /\ panicked' = ""
                /\ ret' = Some(r.pos)
    /\ UNCHANGED << space, overflow_checks, source, last, nsets >>
    /\ UNCHANGED << progVars, stack, config >>

SpaceNext ==
    \/ \E code \in Codes : Read(code)
    \/ \E p \in TestPoints, v \in TestValues : Set(p, v)
    \/ \E p \in TestPoints : Get(p)
    \/ \E p \in WrapPoints(space), d \in TestDeltas : NewPosition(p, d)

SpecSpace == SpaceInit /\ [][SpaceNext]_vars

(***************************************************************************)
(* Properties of the Space                                                 *)
(***************************************************************************)
\* C1: get of a point that was never written (by set or by read) returns
\* 32, wherever the point lies.
C1_GetUnwritten ==
    (op.kind = "get" /\ op.p \notin Written) => ret = Some(SPACE)

\* C2: after any sequence of set calls on a new Space, get of a point
\* returns the value most recently given to set for it.
C2_GetLastSet ==
    (op.kind = "get" /\ source = None /\ op.p \in DOMAIN last) => ret = Some(last[op.p])

\* the points whose last written value is not 32
NonSpace == { pt \in Written : Content(pt) # SPACE }

\* C3: after read and any sets, min and max are the componentwise extremes
\* of the non-space cells, and (0,0) when there is none.
C3_BoundsExact ==
    (source # None /\ panicked = "") =>
        IF NonSpace = {}
        THEN SpaceMin(space) = << 0, 0 >> /\ SpaceMax(space) = << 0, 0 >>
        ELSE /\ SpaceMin(space) = << SetMin({ pt.x : pt \in NonSpace }),
                                     SetMin({ pt.y : pt \in NonSpace }) >>
             /\ SpaceMax(space) = << SetMax({ pt.x : pt \in NonSpace }),
                                     SetMax({ pt.y : pt \in NonSpace }) >>

\* C4: a set that overwrites a non-space cell with a space leaves min and
\* max as they were.
C4_NeverShrinks ==
    [][(op'.kind = "set" /\ op'.v = SPACE /\ Content(op'.p) # SPACE)
         => (SpaceMin(space') = SpaceMin(space) /\ SpaceMax(space') = SpaceMax(space))]_spaceVars

\* C5: a set of 32 on a cell that was never written changes nothing: the
\* tree (its depth and every node of it) and the bounds stay as they were,
\* and so does get of every point.
C5_SpaceOnUnwritten ==
    [][(op'.kind = "set" /\ op'.v = SPACE /\ op'.fresh) => space' = space]_spaceVars

\* C5 witness: a space was set on a fresh point outside the region the tree
\* covers, in a space that holds a non-space cell
C5_Witness ==
    /\ op.kind = "set" /\ op.v = SPACE /\ op.fresh
    /\ op.p = Point(MaxI32, MinI32)
    /\ space.tree.depth < 7
    /\ NonSpace # {}

\* the closed bounding box
Inside(sp, pt) ==
    /\ sp.bounds.min_x <= pt.x /\ pt.x <= sp.bounds.max_x
    /\ sp.bounds.min_y <= pt.y /\ pt.y <= sp.bounds.max_y

\* p + d lies in the bounding box (a sum that does not fit an i32 does not)
SumInside(sp, p, d) ==
    /\ ~AddOvf(p.x, d.dx) /\ ~AddOvf(p.y, d.dy)
    /\ Inside(sp, Point(p.x + d.dx, p.y + d.dy))

\* C6: for p in the bounding box, new_position(p, d) is p + d when that is
\* in the box, and a point of the box otherwise.
C6_NewPositionInside ==
    (op.kind = "new_position" /\ Inside(space, op.p)) =>
        /\ ret # None
        /\ IF SumInside(space, op.p, op.d)
           THEN ret = Some(Point(op.p.x + op.d.dx, op.p.y + op.d.dy))
           ELSE Inside(space, ret[1])

(***************************************************************************)
(* The Program: Program::read(code) for a text of Programs, then calls of  *)
(* step_single, step_all and run by a client that, like main.rs, stops     *)
(* calling once exit_status() is Some.  One action is one step_single      *)
(* together with the loop tests of step_all and run that follow it.        *)
(***************************************************************************)
MaxTicks == 9

Programs ==
    { << 116, 64 >>,                                  \* t@
      << 116, 64, 64 >>,                              \* t@@
      << 49, 49, 48, 51, 107, 107, 64 >>,             \* 1103kk@
      << 48, 107, 53, 113 >>,                         \* 0k5q
      << 48, 107, 32, 53, 113 >>,                     \* 0k 5q
      << 51, 107, 116 >>,                             \* 3kt
      << 50, 107, 64 >>,                              \* 2k@
      << 49, 49, 48, 51, 50, 51, 106, 64, 107, 107, 107, 116 >>,
                                                      \* 110323j@kkkt
      << 116 >>,                                      \* t
      << 122, 116 >>,                                 \* zt
      << 113 >>,                                      \* q
      << 55, 116, 113 >>,                             \* 7tq
      << 50, 107, 116, 64 >>,                         \* 2kt@
      << 49, 48, 49, 55, 48, 52, 107, 107, 113, 64 >>,    \* 101704kkq@
      << 49, 32, 59, 57, 59, 50, 43, 92, 58, 96, 95, 64, 53, 113 >>,
                                                      \* 1 ;9;2+\:`_@5q
      << 34, 97, 32, 32, 98, 34, 43, 64 >>,           \* "a  b"+@
      << 34, 32, 32, 97 >>,                           \* "  a
      << 34, 32, 34, 116, 64 >>,                      \* " "t@
      << 50, 107, 32, 59, 49, 59, 53, 113 >>,         \* 2k ;1;5q
      << 32, LF, 97 >>,                               \* a space, and a below it
      << 56, 52, 42, 53, 48, 112 >>,                  \* 84*50p
      << 56, 52, 42, 115, 97 >>,                      \* 84*sa
      << 39, 97, 48, 48, 103, 64 >>,                  \* 'a00g@
      << 64 >>,                                       \* @
      << 32 >> }                                      \* a single space

Range(s) == { s[i] : i \in DOMAIN s }

IpDataNow == [ips |-> ips, current |-> current, exit |-> exit, new_id |-> new_id]

\* the record of a step_all call that starts now
NewRound ==
    [start |-> [i \in DOMAIN ips |-> ips[i].id], ticked |-> << >>,
     created |-> {}, deleted |-> {}, done |-> FALSE]

ProgramInit ==
    /\ \E code \in Programs :
          /\ source = Some(code)
          /\ space = SpaceRead(code)
    /\ overflow_checks \in BOOLEAN
    /\ panicked = ""
    /\ op = [kind |-> "read"]
    /\ ret = None
    /\ last = << >>
    /\ nsets = 0
    /\ ProgramNew
    /\ stack = StackStackNew
    /\ config = ConfigNew

\* no call is in progress
Idle == op.kind = "read" \/ (op.kind # "read" /\ ~op.active)

CanStep == panicked = "" /\ ~hung /\ exit = None /\ ticks < MaxTicks

\* the state after a step_single of outcome r, made inside a call of the
\* given kind whose step_all started at index now and has the record base
StepResult(kind, now, base, r) ==
    LET id == IF current < Len(ips) THEN ips[current + 1].id ELSE -1
        fine == r.panic = "" /\ ~r.hang
        over == fine /\ (r.d.current = now \/ r.d.exit # None)
        returns == over /\ (kind = "run" => r.d.exit # None)
        qs == { i \in DOMAIN r.control : r.control[i].kind = "Terminate" }
    IN  /\ ~r.unmodelled
        /\ ips' = r.d.ips
        /\ current' = r.d.current
        /\ exit' = r.d.exit
        /\ new_id' = r.d.new_id
        /\ space' = r.space
        /\ config' = r.config
        /\ panicked' = r.panic
        /\ hung' = r.hang
        /\ ticks' = ticks + 1
        /\ op' = [kind |-> kind, now |-> now,
                  active |-> IF kind = "step_single" THEN ~fine ELSE ~returns]
        /\ ret' = IF kind = "run" /\ returns THEN r.d.exit ELSE None
        /\ lastTick' = [id |-> id, index |-> current, len |-> Len(ips),
                        trace |-> r.trace, added |-> r.added,
                        removed |-> r.removed,
                        pre |-> IF current < Len(ips) THEN ips[current + 1]
                                ELSE IpNew,
                        ids |-> [i \in DOMAIN ips |-> ips[i].id]]
        /\ round' = [base EXCEPT !.ticked = Append(@, id),
                                 !.created = @ \cup Range(r.added),
                                 !.deleted = @ \cup Range(r.removed),
                                 !.done = over /\ kind # "step_single"]
        /\ quit' = IF quit.seen THEN [quit EXCEPT !.after = @ + 1]
                   ELSE IF qs # {}
                   THEN [seen |-> TRUE, after |-> 0,
                         v |-> r.control[CHOOSE i \in qs : \A j \in qs : i <= j].v]
                   ELSE quit
        /\ UNCHANGED << overflow_checks, source, last, nsets, stack >>

\* one step_single inside a call
Step(kind, now, base) == StepResult(kind, now, base, step_single(IpDataNow, space, config))

\* prog.step_single()
CallStepSingle == Idle /\ CanStep /\ Step("step_single", current, NoRound)

\* prog.step_all(): now = current and the first step_single of the loop
CallStepAll == Idle /\ CanStep /\ Step("step_all", current, NewRound)

\* a further iteration of the loop of step_all
StepAllLoop ==
    /\ op.kind = "step_all" /\ op.active /\ CanStep
    /\ Step("step_all", op.now, round)

\* prog.run(): the first step_single of its first step_all
CallRun == Idle /\ CanStep /\ Step("run", current, NewRound)

\* a further step_single of run: of the step_all in progress, or the first
\* of the next step_all when the last one returned with exit unset
RunLoop ==
    /\ op.kind = "run" /\ op.active /\ CanStep
    /\ Step("run", IF round.done THEN current ELSE op.now,
            IF round.done THEN NewRound ELSE round)

ProgramNext ==
    \/ CallStepSingle
    \/ CallStepAll
    \/ StepAllLoop
    \/ CallRun
    \/ RunLoop

SpecProgram == ProgramInit /\ [][ProgramNext]_vars

(***************************************************************************)
(* A client of the public methods step_single and step_all that goes on    *)
(* calling them after exit_status() has become Some.                       *)
(***************************************************************************)
CanCall == panicked = "" /\ ~hung /\ ticks < MaxTicks

\* prog.step_single() after the exit status was set
CallStepSingleAfterExit ==
    Idle /\ CanCall /\ exit # None /\ Step("step_single", current, NoRound)

\* prog.step_all() after the exit status was set: its loop ends with the
\* first step_single
CallStepAllAfterExit ==
    Idle /\ CanCall /\ exit # None /\ Step("step_all", current, NewRound)

ClientNext ==
    \/ CallStepSingle
    \/ CallStepAll
    \/ StepAllLoop
    \/ CallStepSingleAfterExit
    \/ CallStepAllAfterExit

SpecClient == ProgramInit /\ [][ClientNext]_vars

(***************************************************************************)
(* Properties of the Program                                               *)
(***************************************************************************)
\* a step_all call is in progress or was the last call to return, alone or
\* inside run
InStepAll == op.kind \in { "step_all", "run" }

\* the number of ticks the Ip id made in the step_all call
TicksOf(id) == Cardinality({ i \in DOMAIN round.ticked : round.ticked[i] = id })

\* the index in s of the value v
IndexIn(s, v) == CHOOSE i \in DOMAIN s : s[i] = v

\* the ticks of the Ips that were in the list when the call began follow
\* the order of that list
InListOrder ==
    \A i, j \in DOMAIN round.ticked :
        (/\ i < j
         /\ round.ticked[i] \in Range(round.start)
         /\ round.ticked[j] \in Range(round.start))
            => IndexIn(round.start, round.ticked[i]) < IndexIn(round.start, round.ticked[j])

\* C7: when a step_all call has returned and exit is not set, every Ip that
\* was in the list when the call began and was not deleted during it has
\* made exactly one tick, and these ticks were made in list order.
C7_EveryIpTicksOnce ==
    (InStepAll /\ round.done /\ exit = None) =>
        /\ \A id \in Range(round.start) \ round.deleted : TicksOf(id) = 1
        /\ InListOrder

\* C8: an Ip created during a step_all call makes no tick before the call
\* returns.
C8_CloneWaits ==
    InStepAll => round.created \cap Range(round.ticked) = {}

\* in a step_all call that began at index 0 of the list (as every step_all
\* of run does, and every step_all of a client that never calls
\* step_single) no Ip created during the call ticks before it returns
CloneWaitsFromZero ==
    (InStepAll /\ op.now = 0) => round.created \cap Range(round.ticked) = {}

\* the last step_single executed t and nothing else, and was committed
SplitTick ==
    /\ Len(lastTick.trace) = 1
    /\ lastTick.trace[1].command = 116
    /\ panicked = ""

\* the index in ips (from 0) of the Ip id
IndexOf(id) == (CHOOSE i \in DOMAIN ips : ips[i].id = id) - 1

\* after a t tick the clone (the Ip with the id just given) is a copy of
\* the Ip that ticked with the delta reversed, and lies immediately before
\* it in the list
CloneBefore ==
    LET clone == lastTick.added[1]
        me == ips[IndexOf(lastTick.id) + 1]
    IN  /\ \E i \in DOMAIN ips : ips[i].id = clone
        /\ IndexOf(clone) + 1 = IndexOf(lastTick.id)
        /\ ips[IndexOf(clone) + 1] = [me EXCEPT !.id = clone, !.delta = reverse(@)]

\* C9: after a t tick the clone lies immediately before the Ip that ticked
\* and is the next Ip to tick, whatever the number of Ips.
C9_CloneRunsNext ==
    SplitTick => (CloneBefore /\ ips[current + 1].id = lastTick.added[1])

\* C9 amended: after a t tick the clone lies immediately before the Ip that
\* ticked; the next Ip to tick is the one that follows the ticking Ip in
\* the list, cyclically, which is the clone exactly when the ticking Ip was
\* the only Ip of the list.
C9_CloneBeforeNextFollows ==
    SplitTick =>
        /\ CloneBefore
        /\ current = (IndexOf(lastTick.id) + 1) % Len(ips)
        /\ (ips[current + 1].id = lastTick.added[1]) <=> (lastTick.len = 1)

\* C9 witness: t was executed by the last of three Ips, and the clone is
\* not the next to tick
C9_Witness ==
    /\ SplitTick
    /\ lastTick.len = 3
    /\ lastTick.index = 2
    /\ Len(ips) = 4
    /\ ips[current + 1].id # lastTick.added[1]

\* the text 101704kkq@, in which k iterates k
NestedIterate == << 49, 48, 49, 55, 48, 52, 107, 107, 113, 64 >>

\* q ends run as C10 says in every program where it is not executed in the
\* same tick as @
QuitEndsRunAlone ==
    (op.kind = "run" /\ quit.seen /\ source # Some(NestedIterate)) =>
        /\ panicked = ""
        /\ ~op.active
        /\ ret = Some(quit.v)
        /\ quit.after = 0

\* C10: when an Ip has executed q during run(), run has returned the value
\* that Ip popped and no tick was made after that tick.
C10_QuitEndsRun ==
    (op.kind = "run" /\ quit.seen) =>
        /\ panicked = ""
        /\ ~op.active
        /\ ret = Some(quit.v)
        /\ quit.after = 0

\* the last step_single executed the command c, directly or under k
Executed(c) ==
    lastTick.id # -1 /\ \E i \in DOMAIN lastTick.trace : lastTick.trace[i].command = c

\* the last step_single was made by the only Ip of the list and executed @
\* and no t
LastIpStopped == lastTick.len = 1 /\ Executed(64) /\ ~Executed(116)

\* C11: while no q has been executed, exit is None as long as an Ip is in
\* the list, and exit becomes Some(0) in exactly the step_single in which the
\* last Ip of the list executes @: that step_single empties the list without
\* a panic, no other one sets exit, and run then returns 0
C11_LastStopExitsZero ==
    ~quit.seen =>
        /\ ips # << >> => exit = None
        /\ LastIpStopped =>
              /\ panicked = ""
              /\ ips = << >>
              /\ exit = Some(0)
              /\ op.kind = "run" => ret = Some(0)
        /\ exit # None => exit = Some(0) /\ LastIpStopped

\* the same for the step_single calls that execute @ at most once
StopOnceExitsZero ==
    (~quit.seen /\ Cardinality({ i \in DOMAIN lastTick.trace : lastTick.trace[i].command = 64 }) <= 1)
        => C11_LastStopExitsZero

\* the ids of the Ips in the list are pairwise distinct
IdsDistinct == \A i, j \in DOMAIN ips : i # j => ips[i].id # ips[j].id

\* the ids new_id, new_id + 1, ... for n added Ips
IdsFrom(first, n) == [k \in 1 .. n |-> first + k - 1]

\* C12: between step_single calls the Ips of the list have pairwise distinct
\* ids: the first Ip has id 0 and the counter starts at 1, and a step_single
\* gives the Ips it adds the successive values of the counter, which grows
\* by one per added Ip
C12_DistinctIds ==
    /\ new_id = 1 /\ Len(ips) = 1 /\ ips[1].id = 0
    /\ [](panicked = "" =>
            IdsDistinct /\ \A i \in DOMAIN ips : ips[i].id \in 0 .. new_id - 1)
    /\ [][panicked' = "" =>
            /\ lastTick'.added = IdsFrom(new_id, Len(lastTick'.added))
            /\ new_id' = new_id + Len(lastTick'.added)]_vars

\* a step_single in which k executed t twice or more has returned
C12_Witness ==
    /\ panicked = "" /\ Executed(107) /\ Executed(116)
    /\ Len(lastTick.added) >= 2
    /\ Len(ips) = lastTick.len + Len(lastTick.added)

\* a tick of the Ip ip in the Space as it is now
TickOf(ip) ==
    [ip |-> ip, space |-> space, config |-> config, control |-> << >>, trace |-> << >>,
     panic |-> "", hang |-> FALSE, unmodelled |-> FALSE]

\* the position of the command that find_command reaches for an Ip that
\* leaves the position pos
CommandAfter(ip, pos) ==
    find_command(step(TickOf([ip EXCEPT !.position = pos]))).ip.position

\* the value a pop of the Ip ip returns
TopValue(ip) == pop(ip.stacks).v

\* the Ip that made the last step_single, as it is in the list now
TickedIp == ips[CHOOSE i \in DOMAIN ips : ips[i].id = lastTick.id]

\* the last step_single executed k and nothing under it, for the Ip that
\* was at the head of the tick with n on top of its stack
IterateAlone(n) ==
    /\ panicked = "" /\ ~hung /\ lastTick.id # -1
    /\ lastTick.trace = << [id |-> lastTick.id, command |-> 107] >>
    /\ ~lastTick.pre.string
    /\ TopValue(lastTick.pre) = n

\* the position of k in the last step_single, of the command that
\* find_command reaches after it, and of the command after that one
IteratePosition == CommandAfter(lastTick.pre, lastTick.pre.position)
IterateNext == CommandAfter(lastTick.pre, IteratePosition)
IterateSecond == CommandAfter(lastTick.pre, IterateNext)

\* C15: after k has popped 0, the next tick of the Ip executes not the
\* command that find_command reaches after k, past spaces and ;...;
\* sections, but the command after that one
C15_IterateZeroSkips ==
    IterateAlone(0) =>
        CommandAfter(TickedIp, TickedIp.position) = IterateSecond

\* the same when the command to skip is in the cell next to k
IterateZeroSkipsCell ==
    (IterateAlone(0)
        /\ IterateNext = new_position(space, IteratePosition, lastTick.pre.delta).pos)
    => CommandAfter(TickedIp, TickedIp.position) = IterateSecond

\* the command that peek_command finds after the k of the last step_single
IterateCommand == SpaceGet(space, IterateNext)

\* the last step_single was the tick of k with n > 0 on top of the stack and
\* a command other than k after it, and has returned
IterateMany ==
    /\ panicked = "" /\ ~hung /\ lastTick.id # -1
    /\ ~lastTick.pre.string
    /\ lastTick.trace # << >>
    /\ lastTick.trace[Len(lastTick.trace)].command = 107
    /\ SpaceGet(space, IteratePosition) = 107
    /\ TopValue(lastTick.pre) > 0
    /\ IsChar(IterateCommand) /\ IterateCommand # 107

\* < > ? @ ^ n q v z
OnceUnderIterate == { 60, 62, 63, 64, 94, 110, 113, 118, 122 }

\* n times the command c, then k: what Config::do_trace reports for the tick
IterateTrace(id, c, n) ==
    [i \in 1 .. n + 1 |-> [id |-> id, command |-> IF i <= n THEN c ELSE 107]]

\* C16: the tick of k with n > 0 executes the command that peek_command
\* finds n times, or once when it is one of < > ? @ ^ n q v z, and so adds
\* n Ips to the list when the command is t
C16_IterateExecutesTimes ==
    IterateMany =>
        /\ lastTick.trace =
              IterateTrace(lastTick.id, IterateCommand,
                           IF IterateCommand \in OnceUnderIterate THEN 1
                           ELSE TopValue(lastTick.pre))
        /\ IterateCommand = 116 =>
              /\ Len(lastTick.added) = TopValue(lastTick.pre)
              /\ Len(ips) = lastTick.len + TopValue(lastTick.pre)

\* 3kt has added three Ips in one step_single
C16_Witness ==
    /\ IterateMany /\ IterateCommand = 116 /\ TopValue(lastTick.pre) = 3
    /\ Len(lastTick.added) = 3

\* 2k@ has executed @ once
IterateStopOnce ==
    /\ IterateMany /\ IterateCommand = 64 /\ TopValue(lastTick.pre) = 2
    /\ exit = Some(0)

\* the values of the cells on the path of an Ip with delta d from pos up to
\* the cell before target, n cells at most
RECURSIVE PathCells(_, _, _, _)
PathCells(pos, d, target, n) ==
    IF pos = target \/ n = 0 THEN << >>
    ELSE << SpaceGet(space, pos) >>
         \o PathCells(new_position(space, pos, d).pos, d, target, n - 1)

\* the number of cells of the bounding box
BoxCells ==
    (SpaceMax(space)[1] - SpaceMin(space)[1] + 1)
        * (SpaceMax(space)[2] - SpaceMin(space)[2] + 1)

\* the last step_single was a tick in string mode
StringTick ==
    /\ panicked = "" /\ ~hung /\ lastTick.id # -1
    /\ lastTick.pre.string

\* the cells the tick passed without pushing them, and the cell it stopped on
StringPassed ==
    PathCells(new_position(space, lastTick.pre.position, lastTick.pre.delta).pos,
              lastTick.pre.delta, TickedIp.position, BoxCells)
StringCell == SpaceGet(space, TickedIp.position)

\* the cell the Ip was on before the tick, which the tick before pushed if
\* it is a space
AfterSpace == SpaceGet(space, lastTick.pre.position) = 32

\* C17: a tick in string mode takes the next cell of the path, or after a
\* space the next cell that is not a space, so that a run of spaces is
\* pushed as one 32; it pushes that cell on the top stack and stays in
\* string mode, or for the closing quote pushes nothing and leaves string
\* mode
C17_StringPushesPath ==
    StringTick =>
        /\ lastTick.trace = << >>
        /\ TickedIp.delta = lastTick.pre.delta
        /\ \A i \in DOMAIN StringPassed : StringPassed[i] = 32
        /\ IF AfterSpace THEN StringCell # 32 ELSE StringPassed = << >>
        /\ TickedIp.string = (StringCell # 34)
        /\ TickedIp.stacks =
              IF StringCell = 34 THEN lastTick.pre.stacks
              ELSE [lastTick.pre.stacks EXCEPT
                       ![Len(lastTick.pre.stacks)] = Append(@, StringCell)]

\* a tick has passed the second space of a run and pushed the cell after it
C17_Witness ==
    /\ StringTick /\ AfterSpace
    /\ StringPassed = << 32 >>
    /\ StringCell = 98
    /\ TickedIp.stacks = << << 97, 32, 98 >> >>

(***************************************************************************)
(* Instruction harness: an Ip whose stack-stack holds values up to the     *)
(* ends of the i32 range executes up to MaxExecutes of the stack and       *)
(* arithmetic instructions.  op keeps the Ip as it was at first and the    *)
(* commands executed since.                                                *)
(***************************************************************************)
MaxExecutes == 2

ArithValues == { MinI32, -1, 0, 2, MaxI32 }

\* + - * / % : $
ArithCommands == { 43, 45, 42, 47, 37, 58, 36 }

TopStacks ==
    { << >> } \cup { << a >> : a \in ArithValues }
        \cup { << a, b >> : a, b \in ArithValues }

InstrStacks ==
    { << s >> : s \in TopStacks } \cup { << << 7 >>, s >> : s \in { << >>, << 2 >> } }

InstrInit ==
    /\ space = SpaceNew
    /\ overflow_checks \in BOOLEAN
    /\ panicked = ""
    /\ ret = None
    /\ source = None
    /\ last = << >>
    /\ nsets = 0
    /\ \E st \in InstrStacks :
          /\ ips = << [IpNew EXCEPT !.stacks = st] >>
          /\ op = [kind |-> "execute", first |-> [IpNew EXCEPT !.stacks = st],
                   done |-> << >>]
    /\ current = 0
    /\ exit = None
    /\ new_id = 1
    /\ hung = FALSE
    /\ ticks = 0
    /\ lastTick = NoTick
    /\ round = NoRound
    /\ quit = NoQuit
    /\ stack = StackStackNew
    /\ config = ConfigNew

\* the Ip after Ip::execute has returned m
ExecuteResult(c, m) ==
    /\ ~m.unmodelled
    /\ ips' = << m.ip >>
    /\ panicked' = m.panic
    /\ hung' = m.hang
    /\ op' = [op EXCEPT !.done = Append(@, c)]
    /\ lastTick' = [id |-> ips[1].id, index |-> 0, len |-> 1, trace |-> m.trace,
                    added |-> << >>, removed |-> << >>, pre |-> ips[1],
                    ids |-> << ips[1].id >>]
    /\ ticks' = ticks + 1
    /\ config' = m.config
    /\ space' = m.space
    /\ UNCHANGED << overflow_checks, ret, source, last, nsets, current,
                    exit, new_id, round, quit, stack >>

\* Ip::execute(ctx, c) on the Ip
Execute(c) ==
    /\ op.kind = "execute"
    /\ panicked = ""
    /\ ticks < MaxExecutes
    /\ ExecuteResult(c, execute(TickOf(ips[1]), c))

InstrNext == \E c \in ArithCommands : Execute(c)

SpecInstr == InstrInit /\ [][InstrNext]_vars

(***************************************************************************)
(* Properties of the instructions                                          *)
(***************************************************************************)
\* the last call was Ip::execute of the command c
Executing(c) ==
    op.kind = "execute" /\ op.done # << >> /\ op.done[Len(op.done)] = c

\* what the instruction popped, b first and a second, and what it left
OperandB == pop(lastTick.pre.stacks).v
OperandA == pop(pop(lastTick.pre.stacks).ss).v
OperandsPopped == pop(pop(lastTick.pre.stacks).ss).ss

\* the stack-stack ss with v on top of its top stack
WithTop(ss, v) == [ss EXCEPT ![Len(ss)] = Append(@, v)]

\* C18: / and % with the divisor b = 0 push 0 in place of the two operands,
\* whatever the dividend a, and leave the delta of the Ip as it was, with no
\* panic
C18_DivideByZero ==
    ((Executing(47) \/ Executing(37)) /\ OperandB = 0) =>
        /\ panicked = ""
        /\ ips[1].stacks = WithTop(OperandsPopped, 0)
        /\ ips[1].delta = lastTick.pre.delta
        /\ ips[1].position = lastTick.pre.position

\* / has divided the least i32 by zero
C18_Witness ==
    /\ Executing(47) /\ OperandB = 0 /\ OperandA = MinI32
    /\ lastTick.pre.stacks = << << MinI32, 0 >> >>
    /\ ips[1].stacks = << << 0 >> >>

\* the two's-complement result of the operation c on a and b; a division by
\* zero gives 0 (C18), and the least i32 divided by -1 wraps to itself with
\* the remainder 0
Wrapped(c, a, b) ==
    CASE c = 43 -> WAdd(a, b)
      [] c = 45 -> WSub(a, b)
      [] c = 42 -> WMul(a, b)
      [] c = 47 -> IF b = 0 THEN 0
                   ELSE IF a = MinI32 /\ b = -1 THEN MinI32
                   ELSE TDiv(a, b)
      [] c = 37 -> IF b = 0 \/ (a = MinI32 /\ b = -1) THEN 0
                   ELSE a - b * TDiv(a, b)

\* + - * / %
Arithmetic == { 43, 45, 42, 47, 37 }

\* the last call executed an arithmetic instruction, which did not panic and
\* pushed the wrapped result in place of its operands
ArithmeticDone ==
    /\ panicked = ""
    /\ ips[1].stacks =
          WithTop(OperandsPopped,
                  Wrapped(op.done[Len(op.done)], OperandA, OperandB))

\* C19: each of + - * / % completes without a panic for all a and b of the
\* i32 range and pushes the wrapped result of the operation on a, popped
\* second, and b, popped first
C19_ArithmeticWraps ==
    (\E c \in Arithmetic : Executing(c)) => ArithmeticDone

\* the same in a build without overflow checks, but for the least i32
\* divided by -1
ArithmeticWrapsUnchecked ==
    ((\E c \in Arithmetic : Executing(c))
        /\ ~overflow_checks
        /\ ~(OperandA = MinI32 /\ OperandB = -1 /\ (Executing(47) \/ Executing(37))))
    => ArithmeticDone

\* the same in a build with overflow checks for the operands whose exact
\* result is an i32
ArithmeticExact ==
    ((\E c \in Arithmetic : Executing(c))
        /\ ~(Executing(43) /\ AddOvf(OperandA, OperandB))
        /\ ~(Executing(45) /\ SubOvf(OperandA, OperandB))
        /\ ~(Executing(42) /\ MulOvf(OperandA, OperandB))
        /\ ~(OperandA = MinI32 /\ OperandB = -1 /\ (Executing(47) \/ Executing(37))))
    => ArithmeticDone

\* : and then $ have been executed
DuplicateDiscard == op.kind = "execute" /\ op.done = << 58, 36 >>

\* the top stack of the stack-stack ss
TopStack(ss) == ss[Len(ss)]

\* C20 as stated: : and then $ leave the stack-stack of the Ip as it was
\* before, also when the top stack was empty
C20_DuplicateDiscardSame ==
    DuplicateDiscard => panicked = "" /\ ips[1].stacks = op.first.stacks

\* C20: : and then $ leave the stack-stack of the Ip as it was before when
\* the top stack held a cell, and leave one 0 on a top stack that was
\* empty; the stacks below are as before
C20_DuplicateDiscardZero ==
    DuplicateDiscard =>
        /\ panicked = ""
        /\ ips[1].stacks =
              IF TopStack(op.first.stacks) = << >>
              THEN WithTop(op.first.stacks, 0)
              ELSE op.first.stacks

\* : and $ have been executed on top stacks with no cell and with two
C20_Witness ==
    /\ DuplicateDiscard
    /\ op.first.stacks = << << 7 >>, << >> >>
    /\ ips[1].stacks = << << 7 >>, << 0 >> >>

DuplicateDiscardTwoCells ==
    /\ DuplicateDiscard
    /\ op.first.stacks = << << MinI32, 2 >> >>
    /\ ips[1].stacks = op.first.stacks

(***************************************************************************)
(* StackStack harness: up to MaxStackOps calls of push, pop, clear,        *)
(* push_string and pop_string on a StackStack of one or two stacks.  op    *)
(* keeps the call, its argument, the StackStack before it, and the call    *)
(* before with what it returned.                                           *)
(***************************************************************************)
MaxStackOps == 3

StackValues == { 0, 7, -1 }

\* the strings of up to two of the characters NUL, a and b
StringChars == { 0, 97, 98 }
Strings ==
    { << >> } \cup { << c >> : c \in StringChars }
        \cup { << c, d >> : c, d \in StringChars }

\* the arguments of nth: y calls it for n > 0 only
NthIndexes == 1 .. 4

NoCall == [kind |-> "new", arg |-> << >>, before |-> << >>, ret |-> None]

StackInit ==
    /\ space = SpaceNew
    /\ overflow_checks = FALSE
    /\ panicked = ""
    /\ ret = None
    /\ source = None
    /\ last = << >>
    /\ nsets = 0
    /\ ProgramNew
    /\ stack \in { StackStackNew, << << 5 >>, << >> >> }
    /\ config = ConfigNew
    /\ op = [kind |-> "stack", arg |-> << >>, before |-> stack, prev |-> NoCall]

\* a call that leaves the StackStack ss and returns r
StackCall(kind, arg, ss, r) ==
    /\ op.kind \in { "stack", "push", "pop", "clear", "push_string", "pop_string",
                     "nth" }
    /\ ticks < MaxStackOps
    /\ stack' = ss
    /\ ret' = r
    /\ op' = [kind |-> kind, arg |-> arg, before |-> stack,
              prev |-> [kind |-> op.kind, arg |-> op.arg, before |-> op.before,
                        ret |-> ret]]
    /\ ticks' = ticks + 1
    /\ UNCHANGED config
    /\ UNCHANGED << space, overflow_checks, panicked, source, last, nsets, ips,
                    current, exit, new_id, hung, lastTick, round, quit >>

StackPush(v) == StackCall("push", << v >>, push(stack, v), None)
StackPop == StackCall("pop", << >>, pop(stack).ss, Some(pop(stack).v))
StackClear == StackCall("clear", << >>, clear(stack), None)
StackPushString(s) ==
    StackCall("push_string", s, push_string(stack, s).ss, Some(push_string(stack, s).n))
StackPopString ==
    StackCall("pop_string", << >>, pop_string(stack).ss, pop_string(stack).ret)

StackNth(k) == StackCall("nth", << k >>, stack, Some(nth(stack, k)))

StackNext ==
    \/ \E v \in StackValues : StackPush(v)
    \/ \E k \in NthIndexes : StackNth(k)
    \/ StackPop
    \/ StackClear
    \/ \E s \in Strings : StackPushString(s)
    \/ StackPopString

SpecStack == StackInit /\ [][StackNext]_vars

(***************************************************************************)
(* Properties of the StackStack                                            *)
(***************************************************************************)
\* the last call was a pop on a StackStack whose top stack was empty
PopEmpty == op.kind = "pop" /\ TopStack(op.before) = << >>

\* C13: a pop on a StackStack whose top stack is empty returns 0 and leaves
\* the StackStack as it was, the top stack empty, without an error, after
\* any calls of push, pop and clear (and push_string and pop_string)
C13_PopEmptyZero ==
    PopEmpty =>
        /\ ret = Some(0)
        /\ stack = op.before
        /\ TopStack(stack) = << >>
        /\ panicked = ""

\* a pop has found the top stack empty after a push and a pop, or after a
\* push and a clear
C13_Witness ==
    /\ PopEmpty /\ ret = Some(0)
    /\ op.prev.kind \in { "pop", "clear" }
    /\ TopStack(op.prev.before) # << >>

\* the last two calls were push_string(s) and pop_string()
StringRoundTrip == op.kind = "pop_string" /\ op.prev.kind = "push_string"

\* C14 as stated: push_string(s) returns the number of characters of s plus
\* one, the pop_string that follows returns Some(s), and the StackStack is
\* then as it was before push_string, for every string s
C14_StringRoundTrip ==
    StringRoundTrip =>
        /\ op.prev.ret = Some(Len(op.prev.arg) + 1)
        /\ ret = Some(op.prev.arg)
        /\ stack = op.prev.before

\* the index of the first NUL of s, or Len(s) + 1
FirstNul(s) ==
    IF \E i \in DOMAIN s : s[i] = 0
    THEN CHOOSE i \in DOMAIN s : s[i] = 0 /\ \A j \in 1 .. i - 1 : s[j] # 0
    ELSE Len(s) + 1

\* C14: push_string(s) returns the number of characters of s plus one; the
\* pop_string that follows returns Some of s up to its first NUL, and leaves
\* the StackStack as it was before push_string when s has no NUL, and else
\* with a 0 and the characters after that NUL on top of it
C14_StringRoundTripToNul ==
    StringRoundTrip =>
        /\ op.prev.ret = Some(Len(op.prev.arg) + 1)
        /\ ret = Some(SubSeq(op.prev.arg, 1, FirstNul(op.prev.arg) - 1))
        /\ stack =
              IF FirstNul(op.prev.arg) > Len(op.prev.arg) THEN op.prev.before
              ELSE [op.prev.before EXCEPT ![Len(op.prev.before)] =
                       Append(@, 0)
                           \o Reversed(SubSeq(op.prev.arg, FirstNul(op.prev.arg) + 1,
                                               Len(op.prev.arg)))]

\* "ab" has been pushed on a stack that holds 7, and popped
C14_Witness ==
    /\ StringRoundTrip
    /\ op.prev.arg = << 97, 98 >>
    /\ op.prev.before = << << 7 >> >>
    /\ op.before = << << 7, 0, 98, 97 >> >>
    /\ ret = Some(<< 97, 98 >>)
    /\ stack = << << 7 >> >>

(***************************************************************************)
(* Properties of Space::read                                               *)
(***************************************************************************)
\* the text s split at every LF, from index i
RECURSIVE SplitAtLF(_, _)
SplitAtLF(s, i) ==
    IF i > Len(s) THEN << >>
    ELSE << SubSeq(s, i, NextLF(s, i) - 1) >> \o SplitAtLF(s, NextLF(s, i) + 1)

\* the characters of a line that are neither form feed nor carriage return
NoFeedNoReturn(line) == SelectSeq(line, LAMBDA v : v # FF /\ v # CR)

\* the cell (i, y) holds the i-th of the characters cells of line y
LineStored(y, cells) ==
    \A i \in 0 .. Len(cells) - 1 : SpaceGet(space, Point(i, y)) = cells[i + 1]

\* Space::read has just returned the Space
JustRead == op.kind = "read" /\ source # None /\ last = << >>

\* C22: after Space::read the i-th character of line y that is neither a
\* form feed nor a carriage return is at (i, y), the lines being the text
\* split at LF: form feeds and carriage returns take no cell, wherever they
\* are in the line
C22_ReadSkipsFeedAndReturn ==
    JustRead =>
        \A y \in 0 .. Len(SplitAtLF(source[1], 1)) - 1 :
            LineStored(y, NoFeedNoReturn(SplitAtLF(source[1], 1)[y + 1]))

\* the same for the form feeds, and for the carriage returns that end a
\* line, in the texts that fit in the first chunk of the tree
ReadSkipsFeedAndLineEnd ==
    (JustRead /\ Len(source[1]) <= CHUNK_SIZE) =>
        \A y \in 0 .. Len(Lines(source[1])) - 1 :
            LineStored(y, Filtered(Lines(source[1])[y + 1]))

\* the top stack nth looked at, and the k it was given
NthStack == TopStack(op.before)
NthIndex == op.arg[1]

\* C29: nth(k) returns the k-th cell of the top stack counted from the top
\* for 1 <= k <= len, the top cell for k = 1 and the bottom cell for k = len,
\* and 0 for k > len
C29_NthFromTop ==
    op.kind = "nth" =>
        /\ stack = op.before
        /\ ret = Some(IF NthIndex <= Len(NthStack)
                      THEN NthStack[Len(NthStack) - NthIndex + 1]
                      ELSE 0)

\* the same for every k but the length of the top stack
NthFromTopAboveBottom ==
    (op.kind = "nth" /\ NthIndex # Len(NthStack)) =>
        /\ stack = op.before
        /\ ret = Some(IF NthIndex <= Len(NthStack)
                      THEN NthStack[Len(NthStack) - NthIndex + 1]
                      ELSE 0)

(***************************************************************************)
(* Block harness: an Ip with one, two or three stacks, a count on top of   *)
(* the top stack and the storage offset (8, 9), executes up to MaxExecutes *)
(* of the instructions { } u n.                                            *)
(***************************************************************************)
\* { } u n
BlockCommands == { 123, 125, 117, 110 }

BlockCounts == { -2, -1, 0, 1, 2, 3 }

BlockTops ==
    { << >> } \cup { << n >> : n \in BlockCounts }
        \cup { << 5, n >> : n \in BlockCounts }
        \cup { << 5, 6, n >> : n \in BlockCounts }

BlockStacks ==
    { << top >> : top \in BlockTops }
        \cup { << below, top >> : below \in { << >>, << 3 >>, << 1, 2, 3, 4 >> },
                                  top \in BlockTops }
        \cup { << << 1 >>, << 3, 4 >>, top >> : top \in { << 1 >>, << 5, 6, 2 >> } }

BlockIp(st) == [IpNew EXCEPT !.stacks = st, !.storage = Point(8, 9)]

BlockInit ==
    /\ space = SpaceNew
    /\ overflow_checks \in BOOLEAN
    /\ panicked = ""
    /\ ret = None
    /\ source = None
    /\ last = << >>
    /\ nsets = 0
    /\ \E st \in BlockStacks :
          /\ ips = << BlockIp(st) >>
          /\ op = [kind |-> "execute", first |-> BlockIp(st), done |-> << >>]
    /\ current = 0
    /\ exit = None
    /\ new_id = 1
    /\ hung = FALSE
    /\ ticks = 0
    /\ lastTick = NoTick
    /\ round = NoRound
    /\ quit = NoQuit
    /\ stack = StackStackNew
    /\ config = ConfigNew

BlockNext == \E c \in BlockCommands : Execute(c)

SpecBlock == BlockInit /\ [][BlockNext]_vars

(***************************************************************************)
(* Properties of the stack-stack instructions                              *)
(***************************************************************************)
\* C24: the stack-stack of every Ip holds at least one stack, whatever
\* instructions the Ip has executed, { } u and n among them
C24_AtLeastOneStack ==
    \A i \in DOMAIN ips : Len(ips[i].stacks) >= 1

\* } has deleted the second stack of the Ip, and a further } has reflected
C24_Witness ==
    /\ op.kind = "execute" /\ op.done = << 125, 125 >>
    /\ panicked = ""
    /\ Len(op.first.stacks) = 2
    /\ Len(ips[1].stacks) = 1
    /\ ips[1].delta = reverse(op.first.delta)

\* the count the last instruction popped, and the top stack it left below
BlockCount == pop(lastTick.pre.stacks).v
BlockTop == TopStack(pop(lastTick.pre.stacks).ss)

\* the n cells that { and } move for n > 0: the top min(n, len) cells of the
\* stack from in their order, above n - len zeros when n > len
Moved(from, n) ==
    IF n <= Len(from) THEN SubSeq(from, Len(from) - n + 1, Len(from))
    ELSE Zeros(n - Len(from)) \o from

\* what is left of the stack from
Unmoved(from, n) ==
    IF n <= Len(from) THEN SubSeq(from, 1, Len(from) - n) ELSE << >>

\* { has been executed with a count n > 0
BeginBlock == Executing(123) /\ BlockCount > 0 /\ panicked = ""

\* after { the new top stack holds the moved cells, and the stack below
\* what is left of it and the storage offset, x and then y
BeginBlockMoved ==
    /\ Len(ips[1].stacks) = Len(lastTick.pre.stacks) + 1
    /\ TopStack(ips[1].stacks) = Moved(BlockTop, BlockCount)
    /\ Len(TopStack(ips[1].stacks)) = BlockCount
    /\ ips[1].stacks[Len(ips[1].stacks) - 1] =
           Unmoved(BlockTop, BlockCount)
               \o << lastTick.pre.storage.x, lastTick.pre.storage.y >>

\* C26: after { with n > 0 on a top stack of length len the new top stack
\* holds n cells, the top min(n, len) cells of the former top stack in their
\* order above n - len zeros, and the former top stack has lost these cells
\* and gained storage.x and storage.y
C26_BeginBlockMoves == BeginBlock => BeginBlockMoved

\* the same when the former top stack holds n cells or more, or none
BeginBlockMovesWithin ==
    (BeginBlock /\ (BlockCount <= Len(BlockTop) \/ BlockTop = << >>))
        => BeginBlockMoved

\* } has been executed with a count n > 0 on two stacks or more
EndBlock ==
    Executing(125) /\ BlockCount > 0 /\ panicked = ""
        /\ Len(lastTick.pre.stacks) >= 2

\* the stack below the top stack before }, and the y and x popped from it
EndBlockBelow == lastTick.pre.stacks[Len(lastTick.pre.stacks) - 1]
EndBlockY == pop(<< EndBlockBelow >>).v
EndBlockX == pop(pop(<< EndBlockBelow >>).ss).v
EndBlockRest == pop(pop(<< EndBlockBelow >>).ss).ss[1]

\* after } the storage offset is the (x, y) popped from the second stack,
\* which holds the moved cells above what it held
EndBlockMoved ==
    /\ Len(ips[1].stacks) = Len(lastTick.pre.stacks) - 1
    /\ ips[1].storage = Point(EndBlockX, EndBlockY)
    /\ TopStack(ips[1].stacks) = EndBlockRest \o Moved(BlockTop, BlockCount)
    /\ Len(TopStack(ips[1].stacks)) = Len(EndBlockRest) + BlockCount

\* C27: } with n > 0 on two stacks or more pops y and then x from the second
\* stack as the storage offset and appends n cells to it, the top min(n, len)
\* cells of the deleted stack in their order above n - len zeros
C27_EndBlockMoves == EndBlock => EndBlockMoved

\* the same when the deleted stack holds n cells or more, or none
EndBlockMovesWithin ==
    (EndBlock /\ (BlockCount <= Len(BlockTop) \/ BlockTop = << >>))
        => EndBlockMoved

\* } or u has been executed by an Ip with a single stack
SingleStack ==
    (Executing(125) \/ Executing(117)) /\ single(lastTick.pre.stacks)

\* C28: } and u executed on a single stack reverse the delta of the Ip and
\* leave its stack-stack, the count on top included, and its storage offset
\* as they were; the assertions of delete_stack and transfer_elements never
\* fail
C28_SingleStackReflects ==
    /\ panicked # "assertion failed: !self.single()"
    /\ SingleStack =>
          /\ panicked = ""
          /\ ips[1].delta = reverse(lastTick.pre.delta)
          /\ ips[1].stacks = lastTick.pre.stacks
          /\ ips[1].storage = lastTick.pre.storage
          /\ ips[1].position = lastTick.pre.position

\* u has been executed on the single stack [5, 6, 2]
C28_Witness ==
    /\ SingleStack /\ Executing(117)
    /\ lastTick.pre.stacks = << << 5, 6, 2 >> >>
    /\ ips[1].stacks = << << 5, 6, 2 >> >>
    /\ ips[1].delta = Delta(-1, 0)

(***************************************************************************)
(* Properties of the cursor                                                *)
(***************************************************************************)
\* the last step_single has returned and has left Ips in the list
Committed == lastTick.id # -1 /\ panicked = "" /\ ~hung /\ ips # << >>

\* the Ip that made the last step_single is still in the list
TickerStays == \E i \in DOMAIN ips : ips[i].id = lastTick.id

\* the id of the Ip that followed it in the list before the step_single
Follower == lastTick.ids[((lastTick.index + 1) % lastTick.len) + 1]

\* C25: after a step_single that leaves Ips in the list, current is the
\* index of the Ip that follows the ticking Ip in the new list, cyclically,
\* or, when the ticking Ip has deleted itself, of the Ip that followed it
\* before, whatever the number of Ips the tick added
C25_CursorFollows ==
    Committed =>
        /\ current < Len(ips)
        /\ IF TickerStays
           THEN current = (IndexOf(lastTick.id) + 1) % Len(ips)
           ELSE lastTick.len > 1 => ips[current + 1].id = Follower

\* the same for the step_single calls that delete one Ip at most
CursorFollowsOneStop ==
    (Committed /\ Len(lastTick.removed) <= 1) =>
        /\ current < Len(ips)
        /\ IF TickerStays
           THEN current = (IndexOf(lastTick.id) + 1) % Len(ips)
           ELSE lastTick.len > 1 => ips[current + 1].id = Follower

(***************************************************************************)
(* Input and file harness: an Ip executes up to MaxExecutes of ~ & o,      *)
(* either on an input stream with an empty stack, or on a Space read from  *)
(* a text with the arguments of o on the stack: the rectangle w h x y, the *)
(* flags v and the path "f".                                               *)
(***************************************************************************)
\* ~ & o
IoCommands == { 126, 38, 111 }

\* the input streams: empty, a, 12 34\n, 7\n8\n, 5, x12y\n, 2147483648\n, \n
Inputs ==
    { << >>,
      << 97 >>,
      << 49, 50, 32, 51, 52, 10 >>,
      << 55, 10, 56, 10 >>,
      << 53 >>,
      << 120, 49, 50, 121, 10 >>,
      << 50, 49, 52, 55, 52, 56, 51, 54, 52, 56, 10 >>,
      << 10 >> }

\* the texts of the Space: ab/cd, ab/ c, a /b
FileTexts ==
    { << 97, 98, 10, 99, 100 >>,
      << 97, 98, 10, 32, 99 >>,
      << 97, 32, 10, 98 >> }

\* the Configs of the input cases and of the file cases
InputConfigs ==
    { [ConfigNew EXCEPT !.input = i, !.input_ok = ok, !.output_ok = out] :
          i \in Inputs, ok \in BOOLEAN, out \in BOOLEAN }
FileConfigs ==
    { [ConfigNew EXCEPT !.file_view = fv, !.create_ok = ok] :
          fv \in { "Real", "Deny" }, ok \in BOOLEAN }

\* the stacks of the file cases: w h x y v, then the path f
FileStacks ==
    { << << w, h, x, y, v, 0, 102 >> >> :
          w \in 1 .. 2, h \in 1 .. 2, x \in 0 .. 1, y \in 0 .. 1, v \in 0 .. 1 }

IoCases ==
    { [code |-> << >>, stacks |-> StackStackNew, storage |-> Point(0, 0),
       config |-> c] : c \in InputConfigs }
    \cup
    { [code |-> t, stacks |-> st, storage |-> Point(sx, 0), config |-> c] :
          t \in FileTexts, st \in FileStacks, sx \in 0 .. 1, c \in FileConfigs }

IoIp(case) == [IpNew EXCEPT !.stacks = case.stacks, !.storage = case.storage]

IoInit ==
    /\ overflow_checks \in BOOLEAN
    /\ panicked = ""
    /\ ret = None
    /\ last = << >>
    /\ nsets = 0
    /\ \E case \in IoCases :
          /\ source = Some(case.code)
          /\ space = SpaceRead(case.code)
          /\ ips = << IoIp(case) >>
          /\ op = [kind |-> "execute", first |-> IoIp(case), done |-> << >>]
          /\ config = case.config
    /\ current = 0
    /\ exit = None
    /\ new_id = 1
    /\ hung = FALSE
    /\ ticks = 0
    /\ lastTick = NoTick
    /\ round = NoRound
    /\ quit = NoQuit
    /\ stack = StackStackNew

IoNext == \E c \in IoCommands : Execute(c)

SpecIO == IoInit /\ [][IoNext]_vars

(***************************************************************************)
(* Properties of the input instructions                                    *)
(***************************************************************************)
\* the step is an execute of the command c by the Ip
Executes(c) == op.kind = "execute" /\ op'.done = Append(op.done, c)

\* the input is exhausted: nothing buffered, and the stream at its end
\* (read_line succeeds and reads nothing)
InputExhausted ==
    /\ config.input_buffer = << >>
    /\ config.input = << >>
    /\ config.input_ok /\ config.output_ok

\* the instruction failed without a panic: the delta is reversed and the
\* stacks are as they were
FailsQuietly ==
    /\ panicked' = ""
    /\ ips'[1].delta = reverse(ips[1].delta)
    /\ ips'[1].stacks = ips[1].stacks

\* C21: ~ executed when the input is exhausted reverses the delta of the
\* Ip, pushes nothing, and does not panic
C21_InputCharAtEnd == [][Executes(126) /\ InputExhausted => FailsQuietly]_vars

\* ~ fails without a panic when flush or read_line returns an error
InputCharOnError ==
    [][Executes(126) /\ ReadFails(config) => FailsQuietly]_vars

\* ~ has been executed on an exhausted input
InputCharAtEndDone ==
    /\ op.kind = "execute" /\ op.done = << 126 >>
    /\ config.input_buffer = << >> /\ config.input = << >>
    /\ config.input_ok /\ config.output_ok
    /\ source = Some(<< >>)
    /\ panicked # ""

\* the line that & reads from: the input buffer, or when it is empty the
\* next line of the input stream
BufferedLine ==
    IF config.input_buffer # << >> THEN config.input_buffer
    ELSE IF \E i \in DOMAIN config.input : config.input[i] = 10
    THEN SubSeq(config.input, 1,
                CHOOSE i \in DOMAIN config.input :
                    /\ config.input[i] = 10
                    /\ \A k \in 1 .. i - 1 : config.input[k] # 10)
    ELSE config.input

IsDigit(b) == b \in 48 .. 57

\* the first run of decimal digits of the line: it starts at RunFirst and
\* ends before RunEnd, the place of its delimiter
HasRun == \E i \in DOMAIN BufferedLine : IsDigit(BufferedLine[i])
RunFirst ==
    CHOOSE i \in DOMAIN BufferedLine :
        /\ IsDigit(BufferedLine[i])
        /\ \A k \in 1 .. i - 1 : ~IsDigit(BufferedLine[k])
RunEnd ==
    CHOOSE j \in RunFirst + 1 .. Len(BufferedLine) + 1 :
        /\ j <= Len(BufferedLine) => ~IsDigit(BufferedLine[j])
        /\ \A k \in RunFirst .. j - 1 : IsDigit(BufferedLine[k])

\* the value of the digits of the line s from a to b (nine digits at most)
RECURSIVE DecimalValue(_, _, _)
DecimalValue(s, a, b) ==
    IF b < a THEN 0 ELSE DecimalValue(s, a, b - 1) * 10 + (s[b] - 48)

\* the first run of the line is delimited and its value is an i32
Delimited ==
    /\ config.input_ok /\ config.output_ok
    /\ HasRun
    /\ RunEnd <= Len(BufferedLine)
    /\ RunEnd - RunFirst <= 9

\* what is left of the line after the run and, if it is a newline, after
\* its delimiter
AfterRun ==
    SubSeq(BufferedLine,
           IF BufferedLine[RunEnd] = 10 THEN RunEnd + 1 ELSE RunEnd,
           Len(BufferedLine))

\* & has pushed the value of the first run and left in the buffer what
\* follows it
FirstRunRead ==
    /\ panicked' = ""
    /\ ips'[1].stacks = push(ips[1].stacks,
                             DecimalValue(BufferedLine, RunFirst, RunEnd - 1))
    /\ config'.input_buffer = AfterRun

\* C30: & pushes the value of the first run of decimal digits of the
\* buffered line and removes from the buffer the characters before the
\* delimiter of that run only (and the delimiter if it is a newline), so
\* that a second number of the line is left for the next &
C30_ReadDecimalFirstRun == [][Executes(38) /\ Delimited => FirstRunRead]_vars

\* & does so when the delimiter of the run is the last character of the line
ReadDecimalLastRun ==
    [][Executes(38) /\ Delimited /\ RunEnd = Len(BufferedLine) => FirstRunRead]_vars

\* & twice on the line 12 34\n has pushed 1234, then 0
ReadDecimalTwice ==
    /\ op.kind = "execute" /\ op.done = << 38, 38 >>
    /\ op.first.stacks = StackStackNew
    /\ config.input_buffer = << >> /\ config.input = << >>
    /\ ips[1].stacks = << << 1234, 0 >> >>

(***************************************************************************)
(* Properties of the file output                                           *)
(***************************************************************************)
\* the stack of the Ip holds the arguments of o: w h x y v and the path f
FileArgs == ips[1].stacks \in FileStacks
ArgW == ips[1].stacks[1][1]
ArgH == ips[1].stacks[1][2]
ArgX == ips[1].stacks[1][3]
ArgY == ips[1].stacks[1][4]
ArgV == ips[1].stacks[1][5]

\* row j of the rectangle: the w cells at storage + (x .. x+w-1, y+j)
RectangleRow(j) ==
    [i \in 1 .. ArgW |->
        SpaceGet(space, Point(ips[1].storage.x + ArgX + (i - 1),
                              ips[1].storage.y + ArgY + j))]

\* the rows 0 .. j of the rectangle, a newline between consecutive rows
RECURSIVE RectangleRows(_)
RectangleRows(j) ==
    IF j = 0 THEN RectangleRow(0)
    ELSE RectangleRows(j - 1) \o << 10 >> \o RectangleRow(j)

\* the step is an o with the trim flag off that writes a file
WritesUntrimmed ==
    /\ Executes(111) /\ FileArgs
    /\ ArgV % 2 = 0
    /\ Len(config'.files) = Len(config.files) + 1

\* the text of the file that the step writes
WrittenText == config'.files[Len(config'.files)].data

\* every row of the rectangle but the first begins with a cell that is no
\* space
RowsBeginFilled == \A j \in 1 .. ArgH - 1 : RectangleRow(j)[1] # 32

\* C23: with the trim flag off, the text that o writes for a w x h
\* rectangle is its h rows, row j being the w cells at
\* storage + (x .. x+w-1, y+j) in order, with a newline between consecutive
\* rows (a newline after the last row is accepted)
C23_WriteFileRows ==
    [][WritesUntrimmed =>
          WrittenText \in { RectangleRows(ArgH - 1), RectangleRows(ArgH - 1) \o << 10 >> }]_vars

\* the text is the rows and a last newline when every row but the first
\* begins with a cell that is no space
WriteFileRowsFilled ==
    [][WritesUntrimmed /\ RowsBeginFilled =>
          WrittenText = RectangleRows(ArgH - 1) \o << 10 >>]_vars

\* o has written the rectangle of the rows "ab" and " c" as "ab c\n\n"
WriteFileJoinedRows ==
    /\ op.kind = "execute" /\ op.done = << 111 >>
    /\ source = Some(<< 97, 98, 10, 32, 99 >>)
    /\ op.first.stacks = << << 2, 2, 0, 0, 0, 0, 102 >> >>
    /\ op.first.storage = Point(0, 0)
    /\ config.files = << [path |-> << 102 >>, data |-> << 97, 98, 32, 99, 10, 10 >>] >>

(***************************************************************************)
(* Further properties of the Space                                         *)
(***************************************************************************)
\* pt - d lies in the bounding box (a difference that does not fit an i32
\* does not)
BackInside(sp, pt, d) ==
    /\ ~SubOvf(pt.x, d.dx) /\ ~SubOvf(pt.y, d.dy)
    /\ Inside(sp, Point(pt.x - d.dx, pt.y - d.dy))

\* the number of steps of d that an axis takes from r back to p
StepsBack(p, d, r) ==
    IF d.dx # 0 THEN (p.x - r.x) \div d.dx ELSE (p.y - r.y) \div d.dy

\* r = p - n * d for some n >= 0
OnWayBack(p, d, r) ==
    /\ ~SubOvf(p.x, r.x) /\ ~SubOvf(p.y, r.y)
    /\ StepsBack(p, d, r) >= 0
    /\ ~MulOvf(d.dx, StepsBack(p, d, r)) /\ ~MulOvf(d.dy, StepsBack(p, d, r))
    /\ d.dx * StepsBack(p, d, r) = p.x - r.x
    /\ d.dy * StepsBack(p, d, r) = p.y - r.y

\* r is the result of naive wrapping: p - n * d for the largest n >= 0 such
\* that p - n * d is in the bounding box.  The box is convex and p is in it,
\* so that is the point of the way back which is in the box and whose
\* predecessor is not
NaiveWrap(sp, p, d, r) ==
    /\ OnWayBack(p, d, r)
    /\ Inside(sp, r)
    /\ ~BackInside(sp, r, d)

\* new_position was asked to wrap: p in the box, d not zero, p + d outside
WrapAsked ==
    /\ op.kind = "new_position"
    /\ Inside(space, op.p)
    /\ op.d # Delta(0, 0)
    /\ ~SumInside(space, op.p, op.d)

\* C31: for p in the bounding box and a delta d, not zero, with p + d
\* outside the box, new_position(p, d) is the result of naive wrapping:
\* p - n * d for the largest n >= 0 such that p - n * d is in the box
C31_NewPositionNaiveWrap ==
    WrapAsked => (ret # None /\ NaiveWrap(space, op.p, op.d, ret[1]))

\* new_position wraps as the naive way does when none of its operations
\* overflows
NewPositionWrapsExact ==
    (WrapAsked /\ ~new_position(space, op.p, op.d).ovf
               /\ ~new_position(space, op.p, op.d).div)
        => (ret # None /\ NaiveWrap(space, op.p, op.d, ret[1]))

\* new_position has wrapped by more than one step, without overflow
NewPositionWrapped ==
    /\ WrapAsked
    /\ ~new_position(space, op.p, op.d).ovf
    /\ ret # None
    /\ StepsBack(op.p, op.d, ret[1]) > 1

\* the counter of the key k: a missing entry counts as 0
Counter(map, k) == IF k \in DOMAIN map THEN map[k] ELSE 0

\* the columns and the lines that hold a counter or a written cell
CountedX == DOMAIN space.bounds.nonempty_x \cup { pt.x : pt \in Written }
CountedY == DOMAIN space.bounds.nonempty_y \cup { pt.y : pt \in Written }

\* every counter is the number of the cells of its column or line whose
\* value is not 32
CountersExact ==
    /\ \A x \in CountedX :
          Counter(space.bounds.nonempty_x, x)
              = Cardinality({ pt \in NonSpace : pt.x = x })
    /\ \A y \in CountedY :
          Counter(space.bounds.nonempty_y, y)
              = Cardinality({ pt \in NonSpace : pt.y = y })

\* C33: after Space::read and any sets that follow, nonempty_x[x] is the
\* number of cells of column x whose value is not 32 and nonempty_y[y] the
\* number of such cells of line y, a missing entry counting as 0; no
\* counter is decremented below 0
C33_CountersExact ==
    source # None =>
        /\ panicked # "attempt to subtract with overflow"
        /\ panicked = "" => CountersExact

\* the counters are exact after the read of a text whose lines fit the
\* region that the tree covers at depth 0, and after sets of points of that
\* region
CountersExactInRegion ==
    (/\ source # None
     /\ Len(source[1]) <= CHUNK_SIZE
     /\ \A pt \in DOMAIN last : pt.x \in 0 .. CHUNK_SIZE - 1 /\ pt.y \in 0 .. CHUNK_SIZE - 1)
    => (panicked # "attempt to subtract with overflow"
        /\ (panicked = "" => CountersExact))

\* a cell that the text made non-space has been set to 32, and set again
CountersDecremented ==
    /\ source # None
    /\ op.kind = "set" /\ ~op.fresh
    /\ nsets = 2
    /\ \E pt \in DOMAIN last :
          /\ pt \in ReadCells(source[1])
          /\ ReadValue(source[1], pt) # SPACE
          /\ last[pt] = SPACE

\* the step is a set that leaves the get of the point q as it was
SetKeeps(q) ==
    (op'.kind = "set" /\ op'.p # q) => SpaceGet(space', q) = SpaceGet(space, q)

\* C34: set(p, v) leaves get(q) as it was for every point q other than p,
\* whatever the coordinates of p and q and the depth of the tree
C34_SetFrame == [][\A q \in TestPoints : SetKeeps(q)]_spaceVars

\* the region that the tree covers at every depth
InFirstChunk(q) == q.x \in 0 .. CHUNK_SIZE - 1 /\ q.y \in 0 .. CHUNK_SIZE - 1

\* set leaves get(q) as it was for the points q of the region that the
\* tree covers at every depth
SetFrameInRegion ==
    [][\A q \in TestPoints : InFirstChunk(q) => SetKeeps(q)]_spaceVars

\* a set has made the tree grow while a cell of the first chunk was not 32
SetGrewTree ==
    /\ op.kind = "set"
    /\ ~InFirstChunk(op.p)
    /\ space.tree.depth > 0
    /\ \E q \in TestPoints : InFirstChunk(q) /\ SpaceGet(space, q) # SPACE

(***************************************************************************)
(* Further properties of the Program                                       *)
(***************************************************************************)
\* C36: every step_all returns after at most k ticks, k being the number of
\* Ips in the list when the call began, whatever calls of step_single and
\* step_all came before and whatever t and @ are executed during the call
C36_StepAllTicksAtMost == InStepAll => Len(round.ticked) <= Len(round.start)

\* so it is for the calls of step_all that begin at index 0 of the list
StepAllTicksAtMostFromZero ==
    (InStepAll /\ op.now = 0) => Len(round.ticked) <= Len(round.start)

\* a step_all that began at index 0 with two Ips has returned after a t
TwoTicksFromZero ==
    /\ InStepAll /\ op.now = 0 /\ round.done
    /\ Len(round.start) = 2
    /\ Len(round.ticked) = 2
    /\ round.created # {}

\* the commands that the last tick gave to execute, in the order in which
\* the calls returned
TraceCommands == [i \in DOMAIN lastTick.trace |-> lastTick.trace[i].command]

\* C37: execute is never called with the command 32 or 59, neither by tick
\* nor by the iteration of k: its two panics are not reached
C37_NeverExecutesBlank ==
    /\ panicked \notin { "attempted to execute ' '", "attempted to execute ';'" }
    /\ \A i \in DOMAIN TraceCommands : TraceCommands[i] \notin { 32, 59 }

\* k has executed twice the command found after a space and a section
\* between semicolons
C37_Witness ==
    /\ source = Some(<< 50, 107, 32, 59, 49, 59, 53, 113 >>)
    /\ TraceCommands = << 53, 53, 107 >>
    /\ panicked = ""

\* the cell x of the line is a command outside the sections between
\* semicolons: it is neither 32 nor 59, and an even number of semicolons
\* comes before it
FreeCommand(line, x) ==
    /\ line[x] \notin { 32, 59 }
    /\ Cardinality({ k \in 1 .. x - 1 : line[k] = 59 }) % 2 = 0

\* the program holds such a cell
HasFreeCommand ==
    \E y \in DOMAIN Lines(source[1]) :
        \E x \in DOMAIN Filtered(Lines(source[1])[y]) :
            FreeCommand(Filtered(Lines(source[1])[y]), x)

\* the last tick was of an Ip not in string mode, and does not return
TickHangs == hung /\ ~lastTick.pre.string

\* C38: a tick of an Ip that is not in string mode returns when the program
\* holds a cell that is neither 32 nor 59 and is in no section between
\* semicolons, from every position and delta the Ip can reach, the
\* position (-1, 0) with the delta (1, 0) after Space::read among them
C38_TickReturns == HasFreeCommand => ~TickHangs

\* so it is when the program is one line, the line the Ip starts on
TickReturnsOnOneLine ==
    (HasFreeCommand /\ Len(Lines(source[1])) = 1) => ~TickHangs

\* the tick of the new Ip on a program of one space does not return
TickHangsOnSpace == source = Some(<< 32 >>) /\ TickHangs

\* the last call of step_single has returned and the Ip that ticked is
\* still in the list
TickEnded ==
    /\ lastTick.id # -1
    /\ panicked = "" /\ ~hung
    /\ \E i \in DOMAIN ips : ips[i].id = lastTick.id

\* C39: at the end of every tick, the position of the Ip that ticked is in
\* the closed bounding box of the Space as it is at the end of that tick,
\* whatever the instruction: p and s that write a space, #, j, ' and k
\* among them
C39_PositionInBox == TickEnded => Inside(space, TickedIp.position)

\* so it is after the ticks that did not execute p
PositionInBoxWithoutPut ==
    (TickEnded /\ \A i \in DOMAIN TraceCommands : TraceCommands[i] # 112)
        => Inside(space, TickedIp.position)

\* s has written a space on the last cell of the line and the Ip has
\* wrapped to the first
StoredSpaceAndWrapped ==
    /\ source = Some(<< 56, 52, 42, 115, 97 >>)
    /\ TickEnded /\ TraceCommands = << 115 >>
    /\ SpaceMax(space) = << 3, 0 >>
    /\ TickedIp.position = Point(0, 0)

\* the step is a call of step_single, by the client or by step_all
StepSingleStarts == ticks' = ticks + 1

\* ips[current] is in range
CurrentInRange == Len(ips) > 0 /\ current < Len(ips)

\* C35: at the start of every step_single, after any sequence of calls of
\* step_single and step_all (calls made after exit_status() has become
\* Some among them), the list of Ips is not empty and current < ips.len()
C35_CurrentInRange == [][StepSingleStarts => CurrentInRange]_vars

\* so it is at the start of the calls made while exit_status() is None
CurrentInRangeBeforeExit ==
    [][StepSingleStarts /\ exit = None => CurrentInRange]_vars

\* step_single has been called on an empty list of Ips
StepSingleOnEmpty ==
    /\ ips = << >> /\ exit = Some(0)
    /\ lastTick.len = 0
    /\ panicked = "index out of bounds"

\* C32: in every state, an Ip that is not in string mode has saw_space
\* false, the clones made by t among them; so saw_space is false when "
\* enters string mode, and the first character of a string is not skipped
C32_SawSpaceInStringOnly ==
    \A i \in DOMAIN ips : ~ips[i].string => ~ips[i].saw_space

\* a tick that executed " leaves the Ip in string mode with saw_space false
StringEntered ==
    (panicked = "" /\ lastTick.trace # << >>
        /\ lastTick.trace[Len(lastTick.trace)].command = 34
        /\ ~lastTick.pre.string
        /\ \E i \in DOMAIN ips : ips[i].id = lastTick.id)
    => (TickedIp.string /\ ~TickedIp.saw_space)

\* an Ip has left string mode on a quote met right after a space, and t has
\* cloned it since
C32_Witness ==
    /\ source = Some(<< 34, 32, 34, 116, 64 >>)
    /\ Len(ips) = 2
    /\ \A i \in DOMAIN ips : ~ips[i].string
    /\ ips[1].stacks = << << 32 >> >>

====
